---- MODULE Spec2Model ----
(***************************************************************************)
(* Model of the operation pipeline of the Agilow backend: the three        *)
(* extractors (agents/task_extractor_{trello,linear,asana}.py) that        *)
(* deduplicate / reorder the raw operation list returned by the LLM, and   *)
(* the three handlers (api/{trello,linear,asana}_handler.py) that apply    *)
(* the operations one by one against the remote workspace.                 *)
(*                                                                         *)
(* Strings are sequences of one-character tokens, so that lower-casing,    *)
(* capitalisation, containment and the colon-joined signatures are         *)
(* computed the way the Python code computes them.                         *)
(***************************************************************************)
EXTENDS Integers, Sequences, FiniteSets, TLC

VARIABLES
    backend,     \* platform selected by the request: "trello" | "linear" | "asana"
    raw,         \* operation list returned by the LLM (extract_with_retries / json.loads)
    processed,   \* the processed_operations dict handed to the extractor (its key set)
    seenAtStart, \* key set of processed_operations when the current run started
    run,         \* 1 for the first run over raw, 2 for the re-run
    ops,         \* list returned by the extractor = list handed to the handler
    pc,          \* "extract" | "apply" | "done" | "aborted" | "responded"
    pos,         \* number of operations the handler loop has taken up so far
    results,     \* the handler's results list
    calls,       \* mutating remote calls issued so far (POST / PUT / DELETE / mutation)
    remote,      \* remote workspace: tasks (cards / issues) and custom fields
    created,     \* created_cards / created_issues side table of the handler
    nextId,      \* next identifier the remote side hands out
    transcript,  \* context['transcript'] as extract_tasks_asana reads it
    arg,         \* arguments of a lookup helper called on its own
    ret,         \* what that helper returned; in a request, the JSON response
    requests,    \* the requests the server is handling together: form fields and progress
    credentials, \* the module-level credentials of the three handlers
    tmpFiles     \* requests whose temporary audio file is on disk

vars == <<backend, raw, processed, seenAtStart, run, ops, pc, pos, results,
          calls, remote, created, nextId, transcript, arg, ret,
          requests, credentials, tmpFiles>>

----------------------------------------------------------------------------
(* Bounds *)

MaxRaw == 3      \* longest raw list explored by the extraction-only specification
MaxBatch == 2    \* longest raw list explored by the full pipeline specification

----------------------------------------------------------------------------
(* Strings *)

Absent == <<"<absent>">>     \* the key is not in the dict
Null == <<"<null>">>         \* the key is present with value None
NoKind == "<absent>"         \* the discriminator key is not in the dict
NoneKind == "<null>"         \* the discriminator key is present with value None
NoneText == <<"N", "o", "n", "e">>   \* what an f-string prints for None

IsStr(v) == v # Absent /\ v # Null

UpperLetters ==
    <<"A", "B", "C", "D", "E", "F", "G", "H", "I", "J", "K", "L", "M",
      "N", "O", "P", "Q", "R", "S", "T", "U", "V", "W", "X", "Y", "Z">>

LowerLetters ==
    <<"a", "b", "c", "d", "e", "f", "g", "h", "i", "j", "k", "l", "m",
      "n", "o", "p", "q", "r", "s", "t", "u", "v", "w", "x", "y", "z">>

\* the lower-case letter of every upper-case letter
ToLower ==
    [c \in {UpperLetters[k] : k \in 1..Len(UpperLetters)} |->
       LowerLetters[CHOOSE k \in 1..Len(UpperLetters) : UpperLetters[k] = c]]

LowerChar(c) == IF c \in DOMAIN ToLower THEN ToLower[c] ELSE c

UpperChar(c) ==
    IF \E k \in 1..Len(LowerLetters) : LowerLetters[k] = c
    THEN UpperLetters[CHOOSE k \in 1..Len(LowerLetters) : LowerLetters[k] = c]
    ELSE c

\* str.lower()
Lower(s) == [k \in 1..Len(s) |-> LowerChar(s[k])]

\* str.capitalize(): first character upper-cased, the rest lower-cased
CapitalizeWord(w) ==
    [k \in 1..Len(w) |-> IF k = 1 THEN UpperChar(w[k]) ELSE LowerChar(w[k])]

\* str.split(): the maximal runs of non-blank characters, in order
RECURSIVE SplitWords(_)
SplitWords(s) ==
    IF s = <<>> THEN <<>>
    ELSE IF Head(s) = " " THEN SplitWords(Tail(s))
    ELSE LET firstBlank == IF \E k \in 1..Len(s) : s[k] = " "
                           THEN CHOOSE k \in 1..Len(s) :
                                  /\ s[k] = " "
                                  /\ \A j \in 1..(k - 1) : s[j] # " "
                           ELSE Len(s) + 1
         IN <<SubSeq(s, 1, firstBlank - 1)>>
              \o SplitWords(SubSeq(s, firstBlank, Len(s)))

\* ' '.join(words)
RECURSIVE JoinWords(_)
JoinWords(ws) ==
    IF ws = <<>> THEN <<>>
    ELSE IF Len(ws) = 1 THEN ws[1]
    ELSE ws[1] \o <<" ">> \o JoinWords(Tail(ws))

\* ' '.join(word.capitalize() for word in epic.split())
CapitalizeEpic(s) ==
    LET ws == SplitWords(s)
    IN JoinWords([k \in 1..Len(ws) |-> CapitalizeWord(ws[k])])

\* index of the first task of the loop whose test succeeds, 0 when none does
FirstTrue(hits) ==
    IF \E k \in 1..Len(hits) : hits[k]
    THEN CHOOSE k \in 1..Len(hits) : hits[k] /\ \A j \in 1..(k - 1) : ~hits[j]
    ELSE 0

\* a in b  (substring containment)
Contains(b, a) ==
    \E k \in 0..(Len(b) - Len(a)) : SubSeq(b, k + 1, k + Len(a)) = a

\* op.get(key, '') followed by interpolation in an f-string
GetOrEmpty(v) == IF v = Absent THEN <<>> ELSE IF v = Null THEN NoneText ELSE v

\* a or b  on optional strings (None and '' are falsy)
Truthy(v) == IsStr(v) /\ v # <<>>

\* op.get(k1, '') or op.get(k2, '')  interpolated in an f-string
OrGet(a, b) == IF Truthy(a) THEN a ELSE GetOrEmpty(b)

----------------------------------------------------------------------------
(* Operations.  One record shape for the three backends; the Python key    *)
(* behind each field is:                                                   *)
(*   kind      'operation' (Trello, Linear) / 'intent' (Asana)             *)
(*   title     'task' (Trello) / 'title' (Linear, Asana)                   *)
(*   target    'card' (Trello) / 'target_task' (Asana)                     *)
(*   assignee  'member' (Trello) / 'assignee' (Linear, Asana)              *)
(*   new_name  'new_name' (Trello) / 'new_title' (Linear, Asana)           *)
(*   checklist a checklist dict with a non-empty items list, by its name   *)
(*   tags      'tags' (Asana), a list of strings; <<>> when there is none  *)
(*   idx       position of the dict in the raw list (object identity)      *)
(***************************************************************************)

Op(kind, title) ==
    [kind |-> kind, title |-> title, target |-> Absent, status |-> Absent,
     assignee |-> Absent, priority |-> Absent, epic |-> Absent,
     new_name |-> Absent, comment |-> Absent, description |-> Absent,
     checklist |-> Absent, item |-> Absent, items |-> <<>>, tags |-> <<>>,
     idx |-> 0]

sA == <<"a">>
sUpA == <<"A">>
sB == <<"b">>
sX == <<"x">>
sHigh == <<"h">>

\* f"{value}": None prints as "None", a string as itself
Render(v) == IF v = Null THEN NoneText ELSE v

RECURSIVE JoinWith(_, _)
JoinWith(parts, sep) ==
    IF parts = <<>> THEN <<>>
    ELSE IF Len(parts) = 1 THEN parts[1]
    ELSE parts[1] \o sep \o JoinWith(Tail(parts), sep)

\* Python keys of an operation dict in sorted order, with the field behind each
TrelloKeyOrder ==
    << <<"card", "target">>, <<"checklist", "checklist">>, <<"comment", "comment">>,
       <<"description", "description">>, <<"epic", "epic">>, <<"item", "item">>,
       <<"member", "assignee">>,
       <<"new_name", "new_name">>, <<"operation", "kind">>, <<"priority", "priority">>,
       <<"status", "status">>, <<"task", "title">> >>

LinearKeyOrder ==
    << <<"assignee", "assignee">>, <<"checklist", "checklist">>, <<"comment", "comment">>,
       <<"description", "description">>, <<"epic", "epic">>, <<"new_title", "new_name">>,
       <<"operation", "kind">>, <<"priority", "priority">>, <<"status", "status">>,
       <<"target_task", "target">>, <<"title", "title">> >>

HasKey(op, field) == IF field = "kind" THEN op.kind # NoKind ELSE op[field] # Absent
\* the text an f-string gives the value; a checklist dict shows its name and
\* its items
KeyText(op, field) ==
    IF field = "kind" THEN <<op.kind>>
    ELSE IF field = "checklist" /\ op.items # <<>>
    THEN op.checklist \o <<"[">> \o JoinWith(op.items, <<",">>) \o <<"]">>
    ELSE Render(op[field])

\* ','.join(sorted(f"{k}:{op[k]}" for k in op.keys() if k not in excluded))
RECURSIVE FieldParts(_, _, _)
FieldParts(op, order, excluded) ==
    IF order = <<>> THEN <<>>
    ELSE LET py == Head(order)[1]
             field == Head(order)[2]
             rest == FieldParts(op, Tail(order), excluded)
         IN IF HasKey(op, field) /\ py \notin excluded
            THEN << <<py, ":">> \o KeyText(op, field) >> \o rest
            ELSE rest

SortedFields(op, order, excluded) == JoinWith(FieldParts(op, order, excluded), <<",">>)

\* isinstance(op, dict)
IsDict(op) == op.kind # "<scalar>"

\* op.get('operation', '')
OpType(op) == IF op.kind = NoKind THEN "" ELSE op.kind

\* create_operation_signature of task_extractor_trello.py
TrelloSignature(op) ==
    LET t == OpType(op)
    IN CASE ~IsDict(op) -> Null
         [] t = "create" ->
              Lower(<<"create", ":">> \o GetOrEmpty(op.title) \o <<":">>
                    \o GetOrEmpty(op.status) \o <<":">> \o GetOrEmpty(op.epic)
                    \o <<":">> \o GetOrEmpty(op.assignee))
         [] t = "update" ->
              <<"update", ":">> \o GetOrEmpty(op.title) \o <<":">>
                    \o SortedFields(op, TrelloKeyOrder, {"operation", "task"})
         [] t = "rename" ->
              \* keyed on 'old_name', which the handler's rename dicts do not carry
              <<"rename", ":", ":">> \o GetOrEmpty(op.new_name)
         [] t = "comment" ->
              Lower(<<"comment", ":">>
                    \o OrGet(op.target, op.title) \o <<":">>
                    \o OrGet(op.description, op.comment))
         [] t \in {"create_epic", "assign_epic"} ->
              <<t, ":">> \o GetOrEmpty(op.title) \o <<":">> \o GetOrEmpty(op.epic)
         [] t \in {"assign_member", "remove_member"} ->
              <<t, ":">> \o GetOrEmpty(op.title) \o <<":">> \o GetOrEmpty(op.assignee)
         [] OTHER ->
              <<t, ":">> \o SortedFields(op, TrelloKeyOrder, {})

\* create_operation_signature of task_extractor_linear.py
LinearSignature(op) ==
    LET t == OpType(op)
    IN CASE ~IsDict(op) -> Null
         [] t = "create" ->
              Lower(<<"create", ":">> \o GetOrEmpty(op.title) \o <<":">>
                    \o GetOrEmpty(op.status) \o <<":">> \o GetOrEmpty(op.assignee)
                    \o <<":">> \o GetOrEmpty(op.priority))
         [] t = "update" ->
              <<"update", ":">> \o GetOrEmpty(op.title) \o <<":">>
                    \o SortedFields(op, LinearKeyOrder, {"operation", "title"})
         [] t = "comment" ->
              Lower(<<"comment", ":">> \o GetOrEmpty(op.title) \o <<":">>
                    \o OrGet(op.comment, Absent))
         [] t = "assign" ->
              <<"assign", ":">> \o GetOrEmpty(op.title) \o <<":">> \o GetOrEmpty(op.assignee)
         [] t = "delete" ->
              <<"delete", ":">> \o GetOrEmpty(op.title)
         [] OTHER ->
              <<t, ":">> \o SortedFields(op, LinearKeyOrder, {})

----------------------------------------------------------------------------
(* Extractors: what each extract_tasks_* does to the list the LLM returned *)

\* raw list with every dict tagged by its position (its identity)
Tagged(list) == [k \in 1..Len(list) |-> [list[k] EXCEPT !.idx = k]]

\* existing_cards: lower-cased names of the cards fetched from the board
ExistingNames(tasks) == {Lower(tasks[k].name) : k \in 1..Len(tasks)}

\* the filter loop of extract_tasks_trello: signature not yet processed, and
\* for a create the card name not on the board; kept signatures are recorded
RECURSIVE TrelloFilter(_, _, _)
TrelloFilter(list, proc, existing) ==
    IF list = <<>> THEN [kept |-> <<>>, proc |-> proc]
    ELSE LET op == Head(list)
             sig == TrelloSignature(op)
             keep == /\ sig # Null
                     /\ sig \notin proc
                     /\ (op.kind = "create" => Lower(GetOrEmpty(op.title)) \notin existing)
             rest == TrelloFilter(Tail(list), IF keep THEN proc \cup {sig} ELSE proc,
                                  existing)
         IN [kept |-> (IF keep THEN <<op>> ELSE <<>>) \o rest.kept, proc |-> rest.proc]

\* if "epic" in op: op["epic"] = ' '.join(word.capitalize() for word in op["epic"].split())
NormalizeEpic(op) ==
    IF op.epic = Absent THEN op ELSE [op EXCEPT !.epic = CapitalizeEpic(op.epic)]

\* the epic rewrite applied to every operation of a pass
NormalizeAll(list) == [k \in 1..Len(list) |-> NormalizeEpic(list[k])]

\* the passes in another order: creates ahead of the epic creations
TrelloReorderCreatesFirst(filtered) ==
    SelectSeq(filtered, LAMBDA o : o.kind = "rename")
    \o NormalizeAll(SelectSeq(filtered, LAMBDA o : o.kind = "create"))
    \o NormalizeAll(SelectSeq(filtered, LAMBDA o : o.kind = "create_epic"))
    \o NormalizeAll(SelectSeq(filtered,
                        LAMBDA o : o.kind \notin {"rename", "create_epic", "create"}))

\* the four passes of extract_tasks_trello over filtered_tasks
TrelloReorder(filtered) ==
    SelectSeq(filtered, LAMBDA o : o.kind = "rename")
    \o NormalizeAll(SelectSeq(filtered, LAMBDA o : o.kind = "create_epic"))
    \o NormalizeAll(SelectSeq(filtered, LAMBDA o : o.kind = "create"))
    \o NormalizeAll(SelectSeq(filtered,
                        LAMBDA o : o.kind \notin {"rename", "create_epic", "create"}))

\* extract_tasks_trello from the raw list on: the list returned and the
\* processed_operations dict as the call leaves it
ExtractTrello(rawList, proc, tasks) ==
    LET f == TrelloFilter(Tagged(rawList), proc, ExistingNames(tasks))
    IN [ops |-> TrelloReorder(f.kept), proc |-> f.proc]

\* a dedup loop that never adds a signature to seen_signatures
LinearDedupForgetful(list, seen) ==
    SelectSeq(list, LAMBDA o : LinearSignature(o) \notin seen)

\* the dedup loop of extract_tasks_linear, over a fresh seen_signatures set
RECURSIVE LinearDedup(_, _)
LinearDedup(list, seen) ==
    IF list = <<>> THEN <<>>
    ELSE LET op == Head(list)
             sig == LinearSignature(op)
         IN IF sig = Null THEN <<op>> \o LinearDedup(Tail(list), seen)
            ELSE IF sig \notin seen
            THEN <<op>> \o LinearDedup(Tail(list), seen \cup {sig})
            ELSE LinearDedup(Tail(list), seen)

\* extract_tasks_linear from the raw list on; processed_operations is never read.
\* The debug loop calls op.get on every element before the dedup loop: on an
\* element that is not a dict it raises AttributeError, which the function's
\* outer except turns into an empty list.
ExtractLinear(rawList, proc, tasks) ==
    IF \E k \in 1..Len(rawList) : ~IsDict(rawList[k])
    THEN [ops |-> <<>>, proc |-> proc]
    ELSE [ops |-> LinearDedup(Tagged(rawList), {}), proc |-> proc]

----------------------------------------------------------------------------
(* extract_tasks_asana: the post-processing of the parsed list             *)

\* status_keywords, in list order
StatusKeywords ==
    << <<"o", "n", " ", "t", "r", "a", "c", "k">>,
       <<"o", "n", "t", "r", "a", "c", "k">>,
       <<"b", "l", "o", "c", "k", "e", "d">>,
       <<"i", "n", " ", "p", "r", "o", "g", "r", "e", "s", "s">>,
       <<"d", "o", "n", "e">>,
       <<"t", "o", "d", "o">>,
       <<"t", "o", " ", "d", "o">>,
       <<"n", "o", "t", " ", "s", "t", "a", "r", "t", "e", "d">>,
       <<"c", "o", "m", "p", "l", "e", "t", "e", "d">>,
       <<"i", "n", " ", "r", "e", "v", "i", "e", "w">>,
       <<"r", "e", "v", "i", "e", "w">>,
       <<"q", "a">>,
       <<"t", "e", "s", "t", "i", "n", "g">>,
       <<"a", "t", " ", "r", "i", "s", "k">>,
       <<"o", "f", "f", " ", "t", "r", "a", "c", "k">>,
       <<"o", "f", "f", "t", "r", "a", "c", "k">>,
       <<"o", "f", "f", "-", "t", "r", "a", "c", "k">>,
       <<"a", "t", "-", "r", "i", "s", "k">> >>

\* index of the first keyword contained in the lower-cased text, 0 when none is
FirstKeywordIn(text) ==
    FirstTrue([k \in 1..Len(StatusKeywords) |-> Contains(Lower(text), StatusKeywords[k])])

\* index of the first tag that is a status keyword, 0 when none is
FirstStatusTag(tags) ==
    FirstTrue([k \in 1..Len(tags) |->
                 \E n \in 1..Len(StatusKeywords) : Lower(tags[k]) = StatusKeywords[n]])

\* list.remove(tag): the list without the first element equal to tag
RemoveFirst(list, v) ==
    LET k == FirstTrue([n \in 1..Len(list) |-> list[n] = v])
    IN IF k = 0 THEN list
       ELSE SubSeq(list, 1, k - 1) \o SubSeq(list, k + 1, Len(list))

\* the description step and the title step: the first keyword the text contains
PromoteFromText(op, text) ==
    IF Truthy(text) /\ FirstKeywordIn(text) # 0
    THEN [op EXCEPT !.status = StatusKeywords[FirstKeywordIn(text)]]
    ELSE op

\* the four steps of the status loop, one after the other, on one operation:
\* the first tag that is a keyword becomes the status and leaves the tag list;
\* the description step; the title step; the transcript step (and the later
\* pass over the creates, which repeats it), only when the dict has no status
PromoteStatus(op, text) ==
    LET k == FirstStatusTag(op.tags)
        afterTags == IF k = 0 THEN op
                     ELSE [op EXCEPT !.status = op.tags[k],
                                     !.tags = RemoveFirst(op.tags, op.tags[k])]
        afterDescription == PromoteFromText(afterTags, afterTags.description)
        afterTitle == PromoteFromText(afterDescription, afterDescription.title)
    IN IF afterTitle.status = Absent /\ Truthy(text) /\ FirstKeywordIn(text) # 0
       THEN [afterTitle EXCEPT !.status = StatusKeywords[FirstKeywordIn(text)]]
       ELSE afterTitle

\* code points of the characters in use, in increasing order
CodeOrder ==
    <<" ", "-", "0", "1", "2", "3", "4", "5", "6", "7", "8", "9", ":">>
    \o UpperLetters \o <<"_">> \o LowerLetters

\* a < b on Python strings
RECURSIVE StrLess(_, _)
StrLess(a, b) ==
    IF b = <<>> THEN FALSE
    ELSE IF a = <<>> THEN TRUE
    ELSE IF Head(a) # Head(b)
    THEN FirstTrue([k \in 1..Len(CodeOrder) |-> CodeOrder[k] = Head(a)])
         < FirstTrue([k \in 1..Len(CodeOrder) |-> CodeOrder[k] = Head(b)])
    ELSE StrLess(Tail(a), Tail(b))

\* difflib.SequenceMatcher: number of matched characters, found by taking the
\* longest common block (leftmost in a, then leftmost in b) and recursing on
\* the pieces to its left and to its right
RECURSIVE Matches(_, _)
Matches(a, b) ==
    LET blocks == {x \in (1..Len(a)) \X (1..Len(b)) \X (1..Len(a)) :
                     /\ x[1] + x[3] - 1 <= Len(a)
                     /\ x[2] + x[3] - 1 <= Len(b)
                     /\ SubSeq(a, x[1], x[1] + x[3] - 1) = SubSeq(b, x[2], x[2] + x[3] - 1)}
        best == CHOOSE x \in blocks :
                   \A y \in blocks :
                      \/ x[3] > y[3]
                      \/ x[3] = y[3] /\ x[1] < y[1]
                      \/ x[3] = y[3] /\ x[1] = y[1] /\ x[2] <= y[2]
    IN IF blocks = {} THEN 0
       ELSE best[3]
            + Matches(SubSeq(a, 1, best[1] - 1), SubSeq(b, 1, best[2] - 1))
            + Matches(SubSeq(a, best[1] + best[3], Len(a)),
                      SubSeq(b, best[2] + best[3], Len(b)))

\* difflib.get_close_matches(word, choices, n=1, cutoff): the best of the
\* choices whose ratio 2 * M / T is at or above the cutoff (tenths / 10), the
\* greater string on equal ratios; None (Null) when there is none
GetCloseMatch(word, choices, tenths) ==
    LET scored == {<<choices[k], Matches(choices[k], word)>> : k \in 1..Len(choices)}
        close == {c \in scored :
                    \/ Len(c[1]) + Len(word) = 0
                    \/ 10 * 2 * c[2] >= tenths * (Len(c[1]) + Len(word))}
    IN IF close = {} THEN Null
       ELSE (CHOOSE x \in close :
               \A y \in close :
                  \/ x = y
                  \/ x[2] * (Len(y[1]) + Len(word)) > y[2] * (Len(x[1]) + Len(word))
                  \/ /\ x[2] * (Len(y[1]) + Len(word)) = y[2] * (Len(x[1]) + Len(word))
                     /\ StrLess(y[1], x[1]))[1]

\* fuzzy_match(name, choices): get_close_matches(name, choices, n=1, cutoff=0.6)
FuzzyMatch(name, choices) ==
    IF ~Truthy(name) \/ choices = <<>> \/ GetCloseMatch(name, choices, 6) = Null
    THEN name
    ELSE GetCloseMatch(name, choices, 6)

\* \w of the re module on the characters in use
IsWordChar(c) ==
    \/ \E k \in 1..Len(UpperLetters) : c = UpperLetters[k] \/ c = LowerLetters[k]
    \/ c \in {"0", "1", "2", "3", "4", "5", "6", "7", "8", "9", "_"}

\* \b between text[k] and text[k + 1] (k = 0 and k = Len(text) are the ends)
WordBoundary(text, k) ==
    (k >= 1 /\ IsWordChar(text[k])) # (k < Len(text) /\ IsWordChar(text[k + 1]))

\* re.search(r'\b' + re.escape(t) + r'\b', transcript, re.IGNORECASE)
FoundAsWord(t, text) ==
    \E k \in 0..(Len(text) - Len(t)) :
        /\ Lower(SubSeq(text, k + 1, k + Len(t))) = Lower(t)
        /\ WordBoundary(text, k)
        /\ WordBoundary(text, k + Len(t))

\* the two target_task passes: closest current task, then the first current
\* task the transcript mentions
MatchTarget(op, names, text) ==
    LET fuzzy == IF op.target # Absent /\ names # <<>>
                 THEN [op EXCEPT !.target = FuzzyMatch(op.target, names)]
                 ELSE op
        k == FirstTrue([n \in 1..Len(names) |-> FoundAsWord(names[n], text)])
    IN IF fuzzy.target # Absent /\ names # <<>> /\ Truthy(text) /\ k # 0
       THEN [fuzzy EXCEPT !.target = names[k]]
       ELSE fuzzy

\* str.strip() on blanks
RECURSIVE Strip(_)
Strip(s) ==
    IF s = <<>> THEN s
    ELSE IF Head(s) = " " THEN Strip(Tail(s))
    ELSE IF s[Len(s)] = " " THEN Strip(SubSeq(s, 1, Len(s) - 1))
    ELSE s

\* status_canonical_map, bucket by bucket in dict order
OnTrack == <<"o", "n", " ", "t", "r", "a", "c", "k">>
AtRisk == <<"a", "t", " ", "r", "i", "s", "k">>
OffTrack == <<"o", "f", "f", " ", "t", "r", "a", "c", "k">>

StatusVariants(canon) ==
    CASE canon = OnTrack ->
           { <<"o", "n", " ", "t", "r", "a", "c", "k">>,
            <<"o", "n", "t", "r", "a", "c", "k">>,
            <<"o", "n", "-", "t", "r", "a", "c", "k">>,
            <<"o", "n", "_", "t", "r", "a", "c", "k">>,
            <<"g", "r", "e", "e", "n">>,
            <<"t", "o", " ", "d", "o">>,
            <<"t", "o", "d", "o">>,
            <<"n", "o", "t", " ", "s", "t", "a", "r", "t", "e", "d">>,
            <<"n", "o", "t", "s", "t", "a", "r", "t", "e", "d">>,
            <<"n", "o", "t", "-", "s", "t", "a", "r", "t", "e", "d">> }
      [] canon = AtRisk ->
           { <<"a", "t", " ", "r", "i", "s", "k">>,
            <<"a", "t", "r", "i", "s", "k">>,
            <<"a", "t", "-", "r", "i", "s", "k">>,
            <<"a", "t", "_", "r", "i", "s", "k">>,
            <<"y", "e", "l", "l", "o", "w">> }
      [] canon = OffTrack ->
           { <<"o", "f", "f", " ", "t", "r", "a", "c", "k">>,
            <<"o", "f", "f", "t", "r", "a", "c", "k">>,
            <<"o", "f", "f", "-", "t", "r", "a", "c", "k">>,
            <<"o", "f", "f", "_", "t", "r", "a", "c", "k">>,
            <<"r", "e", "d">>,
            <<"b", "l", "o", "c", "k", "e", "d">>,
            <<"s", "t", "u", "c", "k">>,
            <<"d", "e", "l", "a", "y", "e", "d">> }
      [] OTHER -> {}

\* canonical_status without the two replace() calls
CanonicalStatusKeepsSeparators(val) ==
    LET v == Strip(Lower(val))
    IN IF v \in StatusVariants(OnTrack) THEN OnTrack
       ELSE IF v \in StatusVariants(AtRisk) THEN AtRisk
       ELSE IF v \in StatusVariants(OffTrack) THEN OffTrack
       ELSE v

\* canonical_status(val)
CanonicalStatus(val) ==
    LET low == Lower(val)
        v == Strip([k \in 1..Len(low) |-> IF low[k] \in {"-", "_"} THEN " " ELSE low[k]])
    IN IF v \in StatusVariants(OnTrack) THEN OnTrack
       ELSE IF v \in StatusVariants(AtRisk) THEN AtRisk
       ELSE IF v \in StatusVariants(OffTrack) THEN OffTrack
       ELSE v

\* all the passes on one operation; the last one is
\* if 'status' in op and op['status']: op['status'] = canonical_status(op['status'])
PostProcess(op, names, text) ==
    [MatchTarget(PromoteStatus(op, text), names, text)
       EXCEPT !.status = IF Truthy(@) THEN CanonicalStatus(@) ELSE @]

----------------------------------------------------------------------------

\* the create_checklist operations extract_tasks_asana appends for creates
\* that carry a checklist, one per (title, checklist name)
RECURSIVE EmitChecklists(_, _)
EmitChecklists(list, seenKeys) ==
    IF list = <<>> THEN <<>>
    ELSE LET op == Head(list)
             key == <<op.title, op.checklist>>
             emit == /\ op.kind = "create"
                     /\ Truthy(op.checklist)
                     /\ Truthy(op.title)
                     /\ key \notin seenKeys
         IN (IF emit
             THEN << [Op("create_checklist", Absent) EXCEPT
                        !.target = op.title, !.checklist = op.checklist] >>
             ELSE <<>>)
            \o EmitChecklists(Tail(list), IF emit THEN seenKeys \cup {key} ELSE seenKeys)

\* ops = non_delete_ops + delete_ops
MoveDeletesLast(list) ==
    SelectSeq(list, LAMBDA o : o.kind # "delete")
    \o SelectSeq(list, LAMBDA o : o.kind = "delete")

\* extract_tasks_asana from the parsed list on (order and membership of the list)
ExtractAsana(rawList, proc, tasks, text) ==
    LET tagged == Tagged(rawList)
        \* context['tasks'] holds the names of the project's tasks
        fixed == [k \in 1..Len(tagged) |->
                    PostProcess(tagged[k], [n \in 1..Len(tasks) |-> tasks[n].name], text)]
    IN [ops |-> MoveDeletesLast(fixed \o EmitChecklists(fixed, {})), proc |-> proc]

Extract(b, rawList, proc, tasks, text) ==
    CASE b = "trello" -> ExtractTrello(rawList, proc, tasks)
      [] b = "linear" -> ExtractLinear(rawList, proc, tasks)
      [] OTHER -> ExtractAsana(rawList, proc, tasks, text)

----------------------------------------------------------------------------
(* Remote workspace and transport.                                         *)
(*   remote.tasks      the cards / issues / tasks, in listing order        *)
(*   remote.users      names of the board members / workspace users        *)
(*   remote.fields     custom fields the Asana project has                 *)
(* Every lookup of the handlers fetches the task list anew.  The transport *)
(* answers each operation's calls with one of six responses:               *)
(*   lookup    the GET / query calls: "ok", "fail" (non-200), "raise"      *)
(*   primary   the call that creates / updates / deletes                   *)
(*   followup  the calls made after a successful primary call              *)
(***************************************************************************)

Task(id, name, priority) == [id |-> id, name |-> name, priority |-> priority]

Resp(l, p, f) == [lookup |-> l, primary |-> p, followup |-> f]

IdAt(tasks, k) == IF k = 0 THEN 0 ELSE tasks[k].id

Found(id) == [id |-> id, raised |-> FALSE]
LookupRaised == [id |-> 0, raised |-> TRUE]

----------------------------------------------------------------------------
(* trello_handler.py: resolving a checklist or a checklist item on a card  *)

\* position_map, in dict order
PositionMap ==
    << <<<<"f", "i", "r", "s", "t">>, 0>>,
       <<<<"1", "s", "t">>, 0>>,
       <<<<"s", "e", "c", "o", "n", "d">>, 1>>,
       <<<<"2", "n", "d">>, 1>>,
       <<<<"t", "h", "i", "r", "d">>, 2>>,
       <<<<"3", "r", "d">>, 2>>,
       <<<<"f", "o", "u", "r", "t", "h">>, 3>>,
       <<<<"4", "t", "h">>, 3>>,
       <<<<"f", "i", "f", "t", "h">>, 4>>,
       <<<<"5", "t", "h">>, 4>>,
       <<<<"s", "i", "x", "t", "h">>, 5>>,
       <<<<"6", "t", "h">>, 5>>,
       <<<<"s", "e", "v", "e", "n", "t", "h">>, 6>>,
       <<<<"7", "t", "h">>, 6>>,
       <<<<"e", "i", "g", "h", "t", "h">>, 7>>,
       <<<<"8", "t", "h">>, 7>>,
       <<<<"n", "i", "n", "t", "h">>, 8>>,
       <<<<"9", "t", "h">>, 8>>,
       <<<<"t", "e", "n", "t", "h">>, 9>>,
       <<<<"1", "0", "t", "h">>, 9>> >>

\* position_map.get(position_text.lower(), -1)
PositionOf(text) ==
    LET hit == FirstTrue([n \in 1..Len(PositionMap) |-> PositionMap[n][1] = Lower(text)])
    IN IF hit = 0 THEN -1 ELSE PositionMap[hit][2]

DigitChars == <<"0", "1", "2", "3", "4", "5", "6", "7", "8", "9">>

\* str.isdigit() / the regex class \d+
IsDigits(s) ==
    s # <<>> /\ \A k \in 1..Len(s) : \E d \in 1..Len(DigitChars) : DigitChars[d] = s[k]

\* int(s) on a string of digits
RECURSIVE ToInt(_)
ToInt(s) ==
    IF s = <<>> THEN 0
    ELSE 10 * ToInt(SubSeq(s, 1, Len(s) - 1))
         + (CHOOSE d \in 0..9 : DigitChars[d + 1] = s[Len(s)])

sChecklist == <<"c", "h", "e", "c", "k", "l", "i", "s", "t">>
sItem == <<"i", "t", "e", "m">>

\* re.match(r'^(first|...|10th)\s+(noun)$', text.lower()): group(1), or None
OrdinalMatch(text, noun) ==
    LET l == Lower(text)
        words == SplitWords(l)
    IN IF /\ Len(words) = 2
          /\ l[1] # " " /\ l[Len(l)] # " "
          /\ words[2] = noun
          /\ PositionOf(words[1]) # -1
       THEN words[1] ELSE Null

\* re.match(r'^noun\s+(\d+)$', text.lower()): group(1), or None
NumberMatch(text, noun) ==
    LET l == Lower(text)
        words == SplitWords(l)
    IN IF /\ Len(words) = 2
          /\ l[1] # " " /\ l[Len(l)] # " "
          /\ words[1] = noun
          /\ IsDigits(words[2])
       THEN words[2] ELSE Null

\* get_best_fuzzy_match(target, candidates, threshold): the matched candidate,
\* None (Null) when nothing reaches the threshold
GetBestFuzzyMatch(target, candidates, tenths) ==
    LET t == Lower(target)
        exact == FirstTrue([k \in 1..Len(candidates) |-> Lower(candidates[k]) = t])
        contained ==
            FirstTrue([k \in 1..Len(candidates) |->
               LET c == Lower(candidates[k])
                   short == IF Len(t) <= Len(c) THEN Len(t) ELSE Len(c)
                   long == IF Len(t) <= Len(c) THEN Len(c) ELSE Len(t)
               IN /\ Contains(c, t) \/ Contains(t, c)
                  /\ 10 * short >= tenths * long])
    IN IF ~Truthy(target) \/ candidates = <<>> THEN Null
       ELSE IF exact # 0 THEN candidates[exact]
       ELSE IF contained # 0 THEN candidates[contained]
       ELSE GetCloseMatch(t, candidates, tenths)

\* the tail both finders share: the candidate at the 0-based position when the
\* request answers and the position is in range, None (0) otherwise
AtPosition(names, position, up) ==
    IF position = -1 \/ ~up THEN 0
    ELSE IF 0 <= position /\ position < Len(names) THEN position + 1
    ELSE 0

\* find_checklist_by_position(card_id, position_text), as the 1-based index of
\* the checklist it returns (0: None)
FindChecklistByPosition(names, text, up) ==
    LET mapped == PositionOf(text)
        digits == NumberMatch(text, sChecklist)
        position == IF mapped # -1 THEN mapped
                    ELSE IF digits # Null THEN ToInt(digits) - 1
                    ELSE -1
    IN AtPosition(names, position, up)

\* find_checklist_by_name(card_id, checklist_name)
FindChecklistByName(names, ref, up) ==
    LET word == OrdinalMatch(ref, sChecklist)
        byWord == IF word # Null THEN FindChecklistByPosition(names, word, up) ELSE 0
        byNumber == IF NumberMatch(ref, sChecklist) # Null
                    THEN FindChecklistByPosition(names, Lower(ref), up) ELSE 0
        exact == FirstTrue([k \in 1..Len(names) |-> Lower(names[k]) = Lower(ref)])
        best == GetBestFuzzyMatch(ref, names, 7)
    IN IF byWord # 0 THEN byWord
       ELSE IF byNumber # 0 THEN byNumber
       ELSE IF ~up THEN 0
       ELSE IF exact # 0 THEN exact
       ELSE IF names # <<>> /\ best # Null
       THEN FirstTrue([k \in 1..Len(names) |-> names[k] = best])
       ELSE IF Len(names) = 1 THEN 1
       ELSE 0

\* find_checklist_item_by_position(checklist_id, position_text)
FindChecklistItemByPosition(names, text, up) ==
    LET mapped == PositionOf(text)
        digits == NumberMatch(text, sItem)
        position == IF mapped # -1 THEN mapped
                    ELSE IF digits # Null /\ ToInt(digits) - 1 # -1 THEN ToInt(digits) - 1
                    ELSE IF IsDigits(text) THEN ToInt(text) - 1
                    ELSE -1
    IN AtPosition(names, position, up)

\* find_checklist_item_by_name(checklist_id, item_name)
FindChecklistItemByName(names, ref, up) ==
    LET word == OrdinalMatch(ref, sItem)
        byWord == IF word # Null THEN FindChecklistItemByPosition(names, word, up) ELSE 0
        digits == NumberMatch(ref, sItem)
        byNumber == IF digits # Null
                    THEN FindChecklistItemByPosition(names, digits, up) ELSE 0
        byDigits == IF IsDigits(ref)
                    THEN FindChecklistItemByPosition(names, ref, up) ELSE 0
        exact == FirstTrue([k \in 1..Len(names) |-> Lower(names[k]) = Lower(ref)])
        best == GetBestFuzzyMatch(ref, names, 6)
    IN IF byWord # 0 THEN byWord
       ELSE IF byNumber # 0 THEN byNumber
       ELSE IF byDigits # 0 THEN byDigits
       ELSE IF ~up THEN 0
       ELSE IF exact # 0 THEN exact
       ELSE IF names # <<>> /\ best # Null
       THEN FirstTrue([k \in 1..Len(names) |-> names[k] = best])
       ELSE 0

\* find_checklist_item_by_name_or_position(checklist_id, item_reference): the
\* 1-based index of the item, 0 for (None, None)
FindChecklistItemByNameOrPosition(items, ref, up) ==
    LET digits == NumberMatch(ref, sItem)
        position == IF PositionOf(ref) # -1 THEN PositionOf(ref)
                    ELSE IF digits # Null THEN ToInt(digits) - 1
                    ELSE IF IsDigits(ref) THEN ToInt(ref) - 1
                    ELSE -1
    IN IF ~up \/ items = <<>> THEN 0
       ELSE IF position >= 0 /\ position < Len(items) THEN position + 1
       ELSE FirstTrue([k \in 1..Len(items) |-> Lower(items[k]) = Lower(ref)])

\* update_checklist_item once the checklist is resolved: the items created on
\* the way, the item the PUT is sent for (0: none) and the value returned when
\* the PUT is answered with 200
UpdateChecklistItem(items, ref, up) ==
    LET found == FindChecklistItemByNameOrPosition(items, ref, up)
        again == FindChecklistItemByNameOrPosition(Append(items, ref), ref, up)
    IN IF found # 0 THEN [created |-> <<>>, item |-> found, ok |-> TRUE]
       ELSE IF /\ \A k \in 1..Len(ref) : ~IsDigits(<<ref[k]>>)
               /\ Lower(ref) \notin {PositionMap[n][1] : n \in {1, 3, 5, 7, 9}}
       THEN IF up THEN [created |-> <<ref>>, item |-> again, ok |-> again # 0]
            ELSE [created |-> <<>>, item |-> 0, ok |-> FALSE]
       ELSE [created |-> <<>>, item |-> 0, ok |-> FALSE]

\* find_card_by_name(card_name): exact match over the whole list first, then the
\* first card whose name contains card_name; None.lower() raises inside the loop
TrelloFind(name, tasks, r) ==
    IF r.lookup = "raise" THEN LookupRaised
    ELSE IF r.lookup = "fail" \/ tasks = <<>> THEN Found(0)
    ELSE IF name = Null THEN LookupRaised
    ELSE LET exact == FirstTrue([k \in 1..Len(tasks) |-> Lower(tasks[k].name) = Lower(name)])
             partial == FirstTrue([k \in 1..Len(tasks) |->
                                     Contains(Lower(tasks[k].name), Lower(name))])
         IN Found(IdAt(tasks, IF exact # 0 THEN exact ELSE partial))

\* find_issue_by_title(title): exact match only
LinearFind(name, tasks, r) ==
    IF r.lookup = "raise" THEN LookupRaised
    ELSE IF r.lookup = "fail" \/ tasks = <<>> THEN Found(0)
    ELSE IF name = Null THEN LookupRaised
    ELSE Found(IdAt(tasks, FirstTrue([k \in 1..Len(tasks) |->
                                         Lower(tasks[k].name) = Lower(name)])))

\* find_task_gid_by_name(title, session): the first task that matches exactly or
\* contains / is contained in the title; title is None when the key is missing
AsanaFind(name, tasks, r) ==
    IF r.lookup = "raise" THEN LookupRaised
    ELSE IF r.lookup = "fail" \/ tasks = <<>> THEN Found(0)
    ELSE IF ~IsStr(name) THEN LookupRaised
    ELSE Found(IdAt(tasks, FirstTrue([k \in 1..Len(tasks) |->
                 \/ Lower(tasks[k].name) = Lower(name)
                 \/ Contains(Lower(tasks[k].name), Lower(name))
                 \/ Contains(Lower(name), Lower(tasks[k].name))])))

\* get_member_id_by_name / find_user_by_name / find_user_gid: exact name, any case
UserFound(name, users) == IsStr(name) /\ \E u \in users : Lower(u) = Lower(name)

\* effect of successful remote calls on the task list
AddTask(tasks, id, name, priority) == Append(tasks, Task(id, name, priority))
RemoveTask(tasks, id) == SelectSeq(tasks, LAMBDA t : t.id # id)
RenameTask(tasks, id, name) ==
    [k \in 1..Len(tasks) |-> IF tasks[k].id = id THEN [tasks[k] EXCEPT !.name = name]
                             ELSE tasks[k]]
SetPriority(tasks, id, value) ==
    [k \in 1..Len(tasks) |-> IF tasks[k].id = id THEN [tasks[k] EXCEPT !.priority = value]
                             ELSE tasks[k]]

\* one mutating remote call: which operation issued it, what it does, on which
\* task, which fields it writes, which of them it writes as null, and whether
\* the remote side carried it out
Call(p, verb, id, fields, nulls, ok) ==
    [pos |-> p, verb |-> verb, id |-> id, fields |-> fields, nulls |-> nulls, ok |-> ok]

\* one entry of the results list (pos: which operation of the batch it is for)
Result(p, kind, task, success, error) ==
    [pos |-> p, operation |-> kind, task |-> task, success |-> success, error |-> error]

\* what one iteration of a handler loop leaves behind
Outcome(res, newCalls, tasks, createdNow, raised) ==
    [res |-> res, calls |-> newCalls, tasks |-> tasks, created |-> createdNow,
     raised |-> raised]

\* dict.get(key, ''): the stored value, '' when the key is missing
GetArg(v) == IF v = Absent THEN <<>> ELSE v

\* dict.get(key): the stored value, None when the key is missing
GetVal(v) == IF v = Absent THEN Null ELSE v

\* created_cards[name] = id
Remember(createdNow, name, id) ==
    {c \in createdNow : c[1] # name} \cup {<<name, id>>}

InCreated(createdNow, name) == \E c \in createdNow : c[1] = name
CreatedId(createdNow, name) == (CHOOSE c \in createdNow : c[1] = name)[2]

\* the except branch of the Trello handler loop
ExceptResult(p, op, newCalls, tasks, createdNow) ==
    Outcome(<<Result(p, OpType(op), Absent, FALSE, "exception")>>, newCalls, tasks,
            createdNow, FALSE)

\* the except branch of the Linear handler loop
LinearExcept(p, op, newCalls, tasks, createdNow) ==
    Outcome(<<Result(p, OpType(op), op.title, FALSE, "exception")>>, newCalls, tasks,
            createdNow, FALSE)

----------------------------------------------------------------------------
(* handle_task_operations_trello: one iteration of the loop                *)

\* create_card followed by the checklist step of the 'create' branch
TrelloCreate(p, op, r, tasks, createdNow, nid) ==
    LET name == IF op.title = Absent THEN <<"unnamed task">> ELSE op.title
        post == Call(p, "create", nid, {"name"}, {}, r.primary = "ok")
        tasks1 == AddTask(tasks, nid, name, Null)
        labelTarget == TrelloFind(name, tasks1, r)
        inner == (IF Truthy(op.epic)
                  THEN <<Call(p, "label", labelTarget.id, {"label"}, {}, r.followup = "ok")>>
                  ELSE <<>>)
                 \o (IF Truthy(op.comment) /\ ~(Truthy(op.epic) /\ r.followup = "raise")
                     THEN <<Call(p, "comment", labelTarget.id, {"comment"}, {},
                                 r.followup = "ok")>>
                     ELSE <<>>)
        innerRaised == (Truthy(op.epic) \/ Truthy(op.comment))
                       /\ (labelTarget.raised \/ r.followup = "raise")
        checklistCall == Call(p, "checklist", nid, {"checklist"}, {}, r.followup = "ok")
    IN IF r.lookup # "ok"
       THEN \* no list id could be obtained: create_card returns None before the POST
            Outcome(<<Result(p, "create", GetVal(op.title), FALSE, "none")>>, <<>>,
                    tasks, createdNow, FALSE)
       ELSE IF r.primary # "ok"
       THEN Outcome(<<Result(p, "create", GetVal(op.title), FALSE, "none")>>, <<post>>,
                    tasks, createdNow, FALSE)
       ELSE IF innerRaised
       THEN \* the except clause of create_card returns None after the card exists
            Outcome(<<Result(p, "create", GetVal(op.title), FALSE, "none")>>,
                    <<post>> \o (IF labelTarget.raised THEN <<>> ELSE inner),
                    tasks1, createdNow, FALSE)
       ELSE IF Truthy(op.checklist) /\ op.items # <<>>
       THEN \* success, error = add_items_to_checklist(...)
            Outcome(<<Result(p, "create", GetVal(op.title), r.followup = "ok", "none")>>,
                    <<post>> \o inner \o <<checklistCall>>,
                    tasks1, Remember(createdNow, GetVal(op.title), nid), FALSE)
       ELSE Outcome(<<Result(p, "create", GetVal(op.title), TRUE, "none")>>,
                    <<post>> \o inner,
                    tasks1, Remember(createdNow, GetVal(op.title), nid), FALSE)

\* the 'comment' branch: the side table first, add_comment_to_card otherwise
TrelloComment(p, op, r, tasks, createdNow) ==
    LET name == IF Truthy(op.target) THEN op.target ELSE GetVal(op.title)
        f == TrelloFind(name, tasks, r)
        id == IF InCreated(createdNow, name) THEN CreatedId(createdNow, name) ELSE f.id
        post == Call(p, "comment", id, {"comment"}, {}, r.primary = "ok")
    IN IF ~InCreated(createdNow, name) /\ f.raised
       THEN ExceptResult(p, op, <<>>, tasks, createdNow)
       ELSE IF ~InCreated(createdNow, name) /\ f.id = 0
       THEN Outcome(<<Result(p, "comment", name, FALSE, "none")>>, <<>>, tasks,
                    createdNow, FALSE)
       ELSE IF r.primary = "raise"
       THEN ExceptResult(p, op, <<post>>, tasks, createdNow)
       ELSE Outcome(<<Result(p, "comment", name, r.primary = "ok", "none")>>, <<post>>,
                    tasks, createdNow, FALSE)

\* update_card
TrelloUpdate(p, op, r, tasks, createdNow) ==
    LET f == TrelloFind(GetArg(op.title), tasks, r)
        fields == {k \in {"description", "new_name", "status"} : op[k] # Absent}
        put == Call(p, "update", f.id, fields, {k \in fields : op[k] = Null},
                    r.primary = "ok")
        tasks1 == IF IsStr(op.new_name) THEN RenameTask(tasks, f.id, op.new_name)
                  ELSE tasks
        follow == (IF Truthy(op.epic)
                   THEN <<Call(p, "label", f.id, {"label"}, {}, r.followup = "ok")>>
                   ELSE <<>>)
                  \o (IF Truthy(op.comment) /\ ~(Truthy(op.epic) /\ r.followup = "raise")
                      THEN <<Call(p, "comment", f.id, {"comment"}, {}, r.followup = "ok")>>
                      ELSE <<>>)
    IN IF f.raised THEN ExceptResult(p, op, <<>>, tasks, createdNow)
       ELSE IF f.id = 0
       THEN Outcome(<<Result(p, "update", GetVal(op.title), FALSE, "none")>>, <<>>,
                    tasks, createdNow, FALSE)
       ELSE IF r.primary = "raise" THEN ExceptResult(p, op, <<put>>, tasks, createdNow)
       ELSE IF r.primary = "fail"
       THEN Outcome(<<Result(p, "update", GetVal(op.title), FALSE, "none")>>, <<put>>,
                    tasks, createdNow, FALSE)
       ELSE IF follow # <<>> /\ r.followup = "raise"
       THEN ExceptResult(p, op, <<put>> \o follow, tasks1, createdNow)
       ELSE Outcome(<<Result(p, "update", GetVal(op.title), TRUE, "none")>>,
                    <<put>> \o follow, tasks1, createdNow, FALSE)

\* delete_card
TrelloDelete(p, op, r, tasks, createdNow) ==
    LET f == TrelloFind(GetArg(op.title), tasks, r)
        del == Call(p, "delete", f.id, {}, {}, r.primary = "ok")
    IN IF f.raised THEN ExceptResult(p, op, <<>>, tasks, createdNow)
       ELSE IF f.id = 0
       THEN Outcome(<<Result(p, "delete", GetVal(op.title), FALSE, "none")>>, <<>>,
                    tasks, createdNow, FALSE)
       ELSE IF r.primary = "raise" THEN ExceptResult(p, op, <<del>>, tasks, createdNow)
       ELSE Outcome(<<Result(p, "delete", GetVal(op.title), r.primary = "ok", "none")>>,
                    <<del>>,
                    IF r.primary = "ok" THEN RemoveTask(tasks, f.id) ELSE tasks,
                    createdNow, FALSE)

\* rename_card
TrelloRename(p, op, r, tasks, createdNow) ==
    LET f == TrelloFind(GetArg(op.title), tasks, r)
        put == Call(p, "rename", f.id, {"new_name"}, {}, r.primary = "ok")
    IN IF f.raised THEN ExceptResult(p, op, <<>>, tasks, createdNow)
       ELSE IF f.id = 0
       THEN Outcome(<<Result(p, "rename", GetVal(op.title), FALSE, "none")>>, <<>>,
                    tasks, createdNow, FALSE)
       ELSE IF r.primary = "raise" THEN ExceptResult(p, op, <<put>>, tasks, createdNow)
       ELSE Outcome(<<Result(p, "rename", GetVal(op.title), r.primary = "ok", "none")>>,
                    <<put>>,
                    IF r.primary = "ok" /\ Truthy(op.new_name)
                    THEN RenameTask(tasks, f.id, op.new_name) ELSE tasks,
                    createdNow, FALSE)

\* the 'create_epic' branch: create_label, then assign_label_to_card when the
\* operation names a task
TrelloCreateEpic(p, op, r, tasks, createdNow) ==
    LET post == Call(p, "create_label", 0, {"label"}, {}, r.primary = "ok")
        f == TrelloFind(GetArg(op.title), tasks, r)
        attach == Call(p, "label", f.id, {"label"}, {}, r.followup = "ok")
    IN IF ~Truthy(op.epic) \/ r.lookup # "ok"
       THEN Outcome(<<Result(p, "create_epic", GetVal(op.title), FALSE, "none")>>, <<>>,
                    tasks, createdNow, FALSE)
       ELSE IF r.primary # "ok"
       THEN Outcome(<<Result(p, "create_epic", GetVal(op.title), FALSE, "none")>>,
                    <<post>>, tasks, createdNow, FALSE)
       ELSE IF ~Truthy(op.title)
       THEN Outcome(<<Result(p, "create_epic", GetVal(op.title), TRUE, "none")>>,
                    <<post>>, tasks, createdNow, FALSE)
       ELSE IF f.id = 0
       THEN Outcome(<<Result(p, "create_epic", GetVal(op.title), FALSE, "none")>>,
                    <<post>>, tasks, createdNow, FALSE)
       ELSE IF r.followup = "raise"
       THEN ExceptResult(p, op, <<post, attach>>, tasks, createdNow)
       ELSE Outcome(<<Result(p, "create_epic", GetVal(op.title), TRUE, "none")>>,
                    <<post, attach>>, tasks, createdNow, FALSE)

\* assign_member_to_card
TrelloAssignMember(p, op, r, tasks, users, createdNow) ==
    LET f == TrelloFind(GetArg(op.title), tasks, r)
        post == Call(p, "assign", f.id, {"assignee"}, {}, r.primary = "ok")
    IN IF f.raised \/ (f.id # 0 /\ op.assignee = Null)
       THEN ExceptResult(p, op, <<>>, tasks, createdNow)
       ELSE IF f.id = 0 \/ ~UserFound(GetArg(op.assignee), users)
       THEN Outcome(<<Result(p, "assign_member", GetVal(op.title), FALSE, "none")>>,
                    <<>>, tasks, createdNow, FALSE)
       ELSE IF r.primary = "raise" THEN ExceptResult(p, op, <<post>>, tasks, createdNow)
       ELSE Outcome(<<Result(p, "assign_member", GetVal(op.title), r.primary = "ok",
                             "none")>>,
                    <<post>>, tasks, createdNow, FALSE)

\* the 'create_checklist_item' branch: one create_checklist_item call and one
\* result for the operation's item, or, when it has no item and its checklist
\* is a dict with items, one call and one result for every item of the dict
TrelloCreateChecklistItem(p, op, r, tasks, createdNow) ==
    LET f == TrelloFind(GetArg(op.title), tasks, r)
        post == Call(p, "checklist_item", f.id, {"item"}, {}, r.primary = "ok")
        one == Result(p, "create_checklist_item", GetVal(op.title), r.primary = "ok", "none")
        each == ~Truthy(op.item) /\ op.items # <<>>
    IN IF f.raised THEN ExceptResult(p, op, <<>>, tasks, createdNow)
       ELSE IF f.id = 0
       THEN Outcome(<<Result(p, "create_checklist_item", GetVal(op.title), FALSE,
                             "Card not found")>>,
                    <<>>, tasks, createdNow, FALSE)
       ELSE IF r.primary = "raise"
       THEN \* the inner except appends its own result
            Outcome(<<Result(p, "create_checklist_item", GetVal(op.title), FALSE,
                             "exception")>>,
                    <<post>>, tasks, createdNow, FALSE)
       ELSE IF each
       THEN Outcome([k \in 1..Len(op.items) |-> one], [k \in 1..Len(op.items) |-> post],
                    tasks, createdNow, FALSE)
       ELSE Outcome(<<one>>, <<post>>, tasks, createdNow, FALSE)

TrelloStep(p, op, r, tasks, users, createdNow, nid) ==
    LET t == OpType(op)
    IN CASE t = "create" -> TrelloCreate(p, op, r, tasks, createdNow, nid)
         [] t = "comment" -> TrelloComment(p, op, r, tasks, createdNow)
         [] t = "update" -> TrelloUpdate(p, op, r, tasks, createdNow)
         [] t = "delete" -> TrelloDelete(p, op, r, tasks, createdNow)
         [] t = "rename" -> TrelloRename(p, op, r, tasks, createdNow)
         [] t = "create_epic" -> TrelloCreateEpic(p, op, r, tasks, createdNow)
         [] t = "assign_member" -> TrelloAssignMember(p, op, r, tasks, users, createdNow)
         [] t = "create_checklist_item" ->
              TrelloCreateChecklistItem(p, op, r, tasks, createdNow)
         [] OTHER ->
              Outcome(<<Result(p, t, Absent, FALSE, "unknown")>>, <<>>, tasks,
                      createdNow, FALSE)

----------------------------------------------------------------------------
(* handle_task_operations_linear: one iteration of the loop                *)

\* find_user_by_name(None) raises as soon as there is a user to compare with
UserLookupRaises(name, users) == name = Null /\ users # {}

\* create_issue
LinearCreate(p, op, r, tasks, users, createdNow, nid) ==
    LET name == IF op.title = Absent THEN <<"untitled issue">> ELSE op.title
        fields == {"title", "description"}
                  \cup {k \in {"status", "priority"} : op[k] # Absent}
                  \cup (IF UserFound(op.assignee, users) THEN {"assignee"} ELSE {})
        mutation == Call(p, "create", nid, fields, {k \in {"priority"} : op[k] = Null},
                         r.primary = "ok")
    IN IF r.lookup = "raise" \/ UserLookupRaises(op.assignee, users)
       THEN LinearExcept(p, op, <<>>, tasks, createdNow)
       ELSE IF r.lookup = "fail"
       THEN \* no team to create the issue in
            Outcome(<<Result(p, "create", GetVal(op.title), FALSE, "none")>>, <<>>,
                    tasks, createdNow, FALSE)
       ELSE IF r.primary = "raise"
       THEN LinearExcept(p, op, <<mutation>>, tasks, createdNow)
       ELSE IF r.primary = "fail"
       THEN Outcome(<<Result(p, "create", GetVal(op.title), FALSE, "none")>>,
                    <<mutation>>, tasks, createdNow, FALSE)
       ELSE Outcome(<<Result(p, "create", GetVal(op.title), TRUE, "none")>>,
                    <<mutation>>,
                    AddTask(tasks, nid, name, IF IsStr(op.priority) THEN op.priority
                                               ELSE Null),
                    Remember(createdNow, GetVal(op.title), nid), FALSE)

\* update_issue: update_fields holds a field when its key is in the dict
\* (status and assignee only when they resolve)
LinearUpdate(p, op, r, tasks, users, createdNow) ==
    LET f == LinearFind(GetArg(op.title), tasks, r)
        fields == {k \in {"new_name", "description", "priority"} : op[k] # Absent}
                  \cup (IF IsStr(op.status) THEN {"status"} ELSE {})
                  \cup (IF UserFound(op.assignee, users) THEN {"assignee"} ELSE {})
        mutation == Call(p, "update", f.id, fields, {k \in fields : op[k] = Null},
                         r.primary = "ok")
        tasks1 == IF "priority" \in fields THEN SetPriority(tasks, f.id, op.priority)
                  ELSE tasks
        tasks2 == IF IsStr(op.new_name) THEN RenameTask(tasks1, f.id, op.new_name)
                  ELSE tasks1
    IN IF f.raised THEN LinearExcept(p, op, <<>>, tasks, createdNow)
       ELSE IF f.id = 0
       THEN Outcome(<<Result(p, "update", GetVal(op.title), FALSE, "none")>>, <<>>,
                    tasks, createdNow, FALSE)
       ELSE IF op.status = Null \/ UserLookupRaises(op.assignee, users)
       THEN LinearExcept(p, op, <<>>, tasks, createdNow)
       ELSE IF fields = {}
       THEN Outcome(<<Result(p, "update", GetVal(op.title), FALSE, "none")>>, <<>>,
                    tasks, createdNow, FALSE)
       ELSE IF r.primary = "raise"
       THEN LinearExcept(p, op, <<mutation>>, tasks, createdNow)
       ELSE Outcome(<<Result(p, "update", GetVal(op.title), r.primary = "ok", "none")>>,
                    <<mutation>>, IF r.primary = "ok" THEN tasks2 ELSE tasks,
                    createdNow, FALSE)

\* add_comment_to_issue / delete_issue: resolve, then one mutation
LinearSimple(p, op, r, tasks, createdNow, verb) ==
    LET f == LinearFind(GetArg(op.title), tasks, r)
        mutation == Call(p, verb, f.id, IF verb = "comment" THEN {"comment"} ELSE {}, {},
                         r.primary = "ok")
    IN IF f.raised THEN LinearExcept(p, op, <<>>, tasks, createdNow)
       ELSE IF f.id = 0
       THEN Outcome(<<Result(p, verb, GetVal(op.title), FALSE, "none")>>, <<>>,
                    tasks, createdNow, FALSE)
       ELSE IF r.primary = "raise"
       THEN LinearExcept(p, op, <<mutation>>, tasks, createdNow)
       ELSE Outcome(<<Result(p, verb, GetVal(op.title), r.primary = "ok", "none")>>,
                    <<mutation>>,
                    IF verb = "delete" /\ r.primary = "ok" THEN RemoveTask(tasks, f.id)
                    ELSE tasks,
                    createdNow, FALSE)

\* assign_user_to_issue
LinearAssign(p, op, r, tasks, users, createdNow) ==
    LET f == LinearFind(GetArg(op.title), tasks, r)
        mutation == Call(p, "assign", f.id, {"assignee"}, {}, r.primary = "ok")
    IN IF f.raised \/ (f.id # 0 /\ UserLookupRaises(op.assignee, users))
       THEN LinearExcept(p, op, <<>>, tasks, createdNow)
       ELSE IF f.id = 0 \/ ~UserFound(GetArg(op.assignee), users)
       THEN Outcome(<<Result(p, "assign", GetVal(op.title), FALSE, "none")>>, <<>>,
                    tasks, createdNow, FALSE)
       ELSE IF r.primary = "raise"
       THEN LinearExcept(p, op, <<mutation>>, tasks, createdNow)
       ELSE Outcome(<<Result(p, "assign", GetVal(op.title), r.primary = "ok", "none")>>,
                    <<mutation>>, tasks, createdNow, FALSE)

LinearStep(p, op, r, tasks, users, createdNow, nid) ==
    LET t == OpType(op)
    IN CASE t = "create" -> LinearCreate(p, op, r, tasks, users, createdNow, nid)
         [] t = "update" -> LinearUpdate(p, op, r, tasks, users, createdNow)
         [] t = "comment" -> LinearSimple(p, op, r, tasks, createdNow, "comment")
         [] t = "assign" -> LinearAssign(p, op, r, tasks, users, createdNow)
         [] t = "delete" -> LinearSimple(p, op, r, tasks, createdNow, "delete")
         [] OTHER ->
              Outcome(<<Result(p, t, IF op.title = Absent THEN <<"Unknown">> ELSE op.title,
                               FALSE, "unknown")>>,
                      <<>>, tasks, createdNow, FALSE)

----------------------------------------------------------------------------
(* handle_task_operations_asana: one iteration of the loop.  The loop has  *)
(* no try/except: an exception raised by a call leaves the function.       *)

\* op.get("intent", "create")
AsanaIntent(op) == IF op.kind = NoKind THEN "create" ELSE op.kind

\* target_task = op.get("target_task") or title
AsanaTarget(op) == IF Truthy(op.target) THEN op.target ELSE GetVal(op.title)

\* the exception leaves handle_task_operations_asana: no result list is returned
AsanaRaise(newCalls, tasks, createdNow) ==
    Outcome(<<>>, newCalls, tasks, createdNow, TRUE)

\* str(priority).lower() == "none"
IsNoneText(v) == IsStr(v) /\ Lower(v) = Lower(NoneText)

\* get_enum_gid_for_priority returns both the field and the option; the
\* priority custom field has the one enum option High
PriorityEnumFound(v, fields) ==
    "priority" \in fields /\ \E o \in {sHigh} : Lower(o) = Lower(v)

\* a priority step that tests the value instead of the key: None is skipped
AsanaPriorityStepSkipsNone(p, op, r, id, fields) ==
    IF Truthy(op.priority) /\ ~IsNoneText(op.priority)
       /\ r.lookup = "ok" /\ PriorityEnumFound(op.priority, fields)
    THEN <<Call(p, "set_field", id, {"priority"}, {}, r.followup = "ok")>>
    ELSE <<>>

\* the priority step after a successful update PUT: nothing unless the key is in
\* the dict; a value sets the option, None (or "none") removes the field's value
AsanaPriorityStep(p, op, r, id, fields) ==
    IF op.priority = Absent THEN <<>>
    ELSE IF Truthy(op.priority) /\ ~IsNoneText(op.priority)
    THEN IF r.lookup = "ok" /\ PriorityEnumFound(op.priority, fields)
         THEN <<Call(p, "set_field", id, {"priority"}, {}, r.followup = "ok")>>
         ELSE <<>>
    ELSE IF op.priority = Null \/ IsNoneText(op.priority)
    THEN IF r.lookup = "ok" /\ "priority" \in fields
         THEN <<Call(p, "set_field", id, {"priority"}, {"priority"}, r.followup = "ok")>>
         ELSE <<>>
    ELSE <<>>

\* a status step that falls back to clearing the field when the key is missing
AsanaStatusStepDefaults(p, op, r, id, fields) ==
    IF r.lookup # "ok" \/ "status" \notin fields THEN <<>>
    ELSE IF op.status = Absent \/ op.status = Null
    THEN <<Call(p, "set_field", id, {"status"}, {"status"}, r.followup = "ok")>>
    ELSE <<Call(p, "set_field", id, {"status"}, {}, r.followup = "ok")>>

\* the status step after a successful update PUT
AsanaStatusStep(p, op, r, id, fields) ==
    IF op.status = Absent \/ r.lookup # "ok" \/ "status" \notin fields THEN <<>>
    ELSE IF op.status = Null
    THEN <<Call(p, "set_field", id, {"status"}, {"status"}, r.followup = "ok")>>
    ELSE <<Call(p, "set_field", id, {"status"}, {}, r.followup = "ok")>>

\* the follow-up calls of the create branch: priority, status, comment
AsanaCreateFollowups(p, op, r, id, fields) ==
    (IF Truthy(op.priority) /\ r.lookup = "ok" /\ PriorityEnumFound(op.priority, fields)
     THEN <<Call(p, "set_field", id, {"priority"}, {}, r.followup = "ok")>>
     ELSE <<>>)
    \o (IF Truthy(op.status) /\ r.lookup = "ok" /\ "status" \in fields
        THEN <<Call(p, "set_field", id, {"status"}, {}, r.followup = "ok")>>
        ELSE <<>>)
    \o (IF Truthy(op.comment)
        THEN <<Call(p, "comment", id, {"comment"}, {}, r.followup = "ok")>>
        ELSE <<>>)

\* effect of the custom-field calls that the remote side carried out
RECURSIVE ApplyFieldCalls(_, _, _)
ApplyFieldCalls(tasks, cs, op) ==
    IF cs = <<>> THEN tasks
    ELSE LET c == Head(cs)
             t1 == IF c.ok /\ c.verb = "set_field" /\ "priority" \in c.fields
                   THEN SetPriority(tasks, c.id,
                                    IF "priority" \in c.nulls THEN Null ELSE op.priority)
                   ELSE tasks
         IN ApplyFieldCalls(t1, Tail(cs), op)

\* the create branch
AsanaCreate(p, op, r, tasks, users, fields, createdNow, nid) ==
    LET post == Call(p, "create", nid, {"name"}, {}, r.primary = "ok")
        tasks1 == AddTask(tasks, nid, GetVal(op.title), Null)
        follow == AsanaCreateFollowups(p, op, r, nid, fields)
    IN IF Truthy(op.assignee) /\ r.lookup = "raise"
       THEN AsanaRaise(<<>>, tasks, createdNow)
       ELSE IF r.primary = "raise" THEN AsanaRaise(<<post>>, tasks, createdNow)
       ELSE IF r.primary = "fail"
       THEN Outcome(<<Result(p, "create", GetVal(op.title), FALSE, "api")>>, <<post>>,
                    tasks, createdNow, FALSE)
       ELSE IF r.lookup = "raise" /\ (Truthy(op.priority) \/ Truthy(op.status))
       THEN AsanaRaise(<<post>>, tasks1, createdNow)
       ELSE IF follow # <<>> /\ r.followup = "raise"
       THEN AsanaRaise(<<post, follow[1]>>, tasks1, createdNow)
       ELSE Outcome(<<Result(p, "create", GetVal(op.title), TRUE, "none")>>,
                    <<post>> \o follow, ApplyFieldCalls(tasks1, follow, op),
                    createdNow, FALSE)

\* the update branch
AsanaUpdate(p, op, r, tasks, users, fields, createdNow) ==
    LET target == AsanaTarget(op)
        f == AsanaFind(target, tasks, r)
        renames == Truthy(op.new_name) /\ op.new_name # NoneText
        written == (IF renames THEN {"new_name"} ELSE {})
                   \cup (IF Truthy(op.description) THEN {"description"} ELSE {})
                   \cup (IF Truthy(op.assignee) /\ UserFound(op.assignee, users)
                         THEN {"assignee"} ELSE {})
        put == Call(p, "update", f.id, written, {}, r.primary = "ok")
        tasks1 == IF renames THEN RenameTask(tasks, f.id, op.new_name) ELSE tasks
        follow == AsanaPriorityStep(p, op, r, f.id, fields)
                  \o AsanaStatusStep(p, op, r, f.id, fields)
    IN IF f.raised THEN AsanaRaise(<<>>, tasks, createdNow)
       ELSE IF f.id = 0
       THEN Outcome(<<Result(p, "update", target, FALSE, "Task not found")>>, <<>>,
                    tasks, createdNow, FALSE)
       ELSE IF r.primary = "raise" THEN AsanaRaise(<<put>>, tasks, createdNow)
       ELSE IF r.primary = "fail"
       THEN Outcome(<<Result(p, "update", target, FALSE, "api")>>, <<put>>, tasks,
                    createdNow, FALSE)
       ELSE IF follow # <<>> /\ r.followup = "raise"
       THEN AsanaRaise(<<put, follow[1]>>, tasks1, createdNow)
       ELSE Outcome(<<Result(p, "update", target, TRUE, "none")>>, <<put>> \o follow,
                    ApplyFieldCalls(tasks1, follow, op), createdNow, FALSE)

\* the delete branch
AsanaDelete(p, op, r, tasks, createdNow) ==
    LET target == AsanaTarget(op)
        f == AsanaFind(target, tasks, r)
        del == Call(p, "delete", f.id, {}, {}, r.primary = "ok")
    IN IF f.raised THEN AsanaRaise(<<>>, tasks, createdNow)
       ELSE IF f.id = 0
       THEN Outcome(<<Result(p, "delete", target, FALSE, "Task not found")>>, <<>>,
                    tasks, createdNow, FALSE)
       ELSE IF r.primary = "raise" THEN AsanaRaise(<<del>>, tasks, createdNow)
       ELSE IF r.primary = "fail"
       THEN Outcome(<<Result(p, "delete", target, FALSE, "api")>>, <<del>>, tasks,
                    createdNow, FALSE)
       ELSE Outcome(<<Result(p, "delete", target, TRUE, "none")>>, <<del>>,
                    RemoveTask(tasks, f.id), createdNow, FALSE)

\* the add-comment branch
AsanaAddComment(p, op, r, tasks, createdNow) ==
    LET target == AsanaTarget(op)
        f == AsanaFind(target, tasks, r)
        post == Call(p, "comment", f.id, {"comment"}, {}, r.primary = "ok")
    IN IF f.raised THEN AsanaRaise(<<>>, tasks, createdNow)
       ELSE IF f.id = 0
       THEN Outcome(<<Result(p, "add-comment", target, FALSE, "Task not found")>>, <<>>,
                    tasks, createdNow, FALSE)
       ELSE IF ~Truthy(op.comment)
       THEN Outcome(<<Result(p, "add-comment", target, FALSE, "No comment provided")>>,
                    <<>>, tasks, createdNow, FALSE)
       ELSE IF r.primary = "raise" THEN AsanaRaise(<<post>>, tasks, createdNow)
       ELSE Outcome(<<Result(p, "add-comment", target, r.primary = "ok",
                             IF r.primary = "ok" THEN "none"
                             ELSE "Failed to add comment")>>,
                    <<post>>, tasks, createdNow, FALSE)

\* the assign branch
AsanaAssign(p, op, r, tasks, users, createdNow) ==
    LET target == AsanaTarget(op)
        f == AsanaFind(target, tasks, r)
        put == Call(p, "assign", f.id, {"assignee"}, {}, r.primary = "ok")
    IN IF f.raised THEN AsanaRaise(<<>>, tasks, createdNow)
       ELSE IF f.id = 0
       THEN Outcome(<<Result(p, "assign", target, FALSE, "Task not found")>>, <<>>,
                    tasks, createdNow, FALSE)
       ELSE IF ~Truthy(op.assignee)
       THEN Outcome(<<Result(p, "assign", target, FALSE, "No assignee specified")>>,
                    <<>>, tasks, createdNow, FALSE)
       ELSE IF ~UserFound(op.assignee, users)
       THEN Outcome(<<Result(p, "assign", target, FALSE, "User not found")>>, <<>>,
                    tasks, createdNow, FALSE)
       ELSE IF r.primary = "raise" THEN AsanaRaise(<<put>>, tasks, createdNow)
       ELSE Outcome(<<Result(p, "assign", target, r.primary = "ok",
                             IF r.primary = "ok" THEN "none" ELSE "api")>>,
                    <<put>>, tasks, createdNow, FALSE)

\* the create_checklist branch: the checklist becomes a subtask of the target
AsanaCreateChecklist(p, op, r, tasks, createdNow, nid) ==
    LET target == AsanaTarget(op)
        f == AsanaFind(target, tasks, r)
        post == Call(p, "checklist", f.id, {"checklist"}, {}, r.primary = "ok")
        items == Call(p, "checklist_item", f.id, {"checklist"}, {}, r.followup = "ok")
    IN IF f.raised THEN AsanaRaise(<<>>, tasks, createdNow)
       ELSE IF f.id = 0
       THEN Outcome(<<Result(p, "create_checklist", target, FALSE, "Task not found")>>,
                    <<>>, tasks, createdNow, FALSE)
       ELSE IF r.primary = "raise" THEN AsanaRaise(<<post>>, tasks, createdNow)
       ELSE IF r.primary = "fail"
       THEN Outcome(<<Result(p, "create_checklist", target, FALSE, "api")>>, <<post>>,
                    tasks, createdNow, FALSE)
       ELSE IF r.followup = "raise" THEN AsanaRaise(<<post, items>>, tasks, createdNow)
       ELSE Outcome(<<Result(p, "create_checklist", target, TRUE, "none")>>,
                    <<post, items>>, tasks, createdNow, FALSE)

AsanaStep(p, op, r, tasks, users, fields, createdNow, nid) ==
    LET t == AsanaIntent(op)
    IN CASE t = "create" -> AsanaCreate(p, op, r, tasks, users, fields, createdNow, nid)
         [] t = "update" -> AsanaUpdate(p, op, r, tasks, users, fields, createdNow)
         [] t = "delete" -> AsanaDelete(p, op, r, tasks, createdNow)
         [] t = "add-comment" -> AsanaAddComment(p, op, r, tasks, createdNow)
         [] t = "assign" -> AsanaAssign(p, op, r, tasks, users, createdNow)
         [] t = "create_checklist" -> AsanaCreateChecklist(p, op, r, tasks, createdNow, nid)
         [] OTHER ->
              Outcome(<<Result(p, t, AsanaTarget(op), FALSE, "Unknown intent")>>, <<>>,
                      tasks, createdNow, FALSE)

----------------------------------------------------------------------------
(* The operations the LLM may return, per backend, and the workspaces the  *)
(* request may find.                                                       *)

TrelloOps ==
    { Op("create", sA),
      Op("create", sUpA),
      [Op("create", sB) EXCEPT !.checklist = sX, !.items = <<sX>>, !.comment = sX],
      [Op("create_checklist_item", sA) EXCEPT !.checklist = sX, !.items = <<sA, sB>>],
      [Op("update", sA) EXCEPT !.description = sB, !.epic = sX],
      Op("delete", sA),
      Op("delete", Absent),
      [Op("rename", sA) EXCEPT !.new_name = sB],
      [Op("create_epic", Absent) EXCEPT !.epic = sX],
      [Op("comment", sB) EXCEPT !.comment = sX],
      Op(NoKind, sA) }

LinearOps ==
    { Op("create", sA),
      Op("create", sUpA),
      [Op("update", sA) EXCEPT !.new_name = sB],
      [Op("update", sA) EXCEPT !.priority = Null],
      [Op("update", sA) EXCEPT !.description = sX],
      [Op("update", sA) EXCEPT !.description = sX, !.assignee = Null],
      Op("delete", sA),
      [Op("comment", sB) EXCEPT !.comment = sX],
      [Op("assign", sA) EXCEPT !.assignee = sX],
      Op("archive", sA) }

AsanaOps ==
    { [Op("create", sA) EXCEPT !.priority = sHigh],
      [Op("create", sB) EXCEPT !.checklist = sX],
      [Op("update", Absent) EXCEPT !.target = sA, !.priority = Null],
      [Op("update", Absent) EXCEPT !.target = sA, !.description = sX],
      [Op("update", Absent) EXCEPT !.target = sA, !.new_name = sB],
      [Op("update", Absent) EXCEPT !.target = sA, !.description = sX, !.assignee = Null],
      Op("delete", sA),
      Op("delete", Absent),
      [Op("add-comment", Absent) EXCEPT !.target = sB, !.comment = sX],
      Op("archive", sA),
      Op(NoKind, sA),
      Op(NoneKind, sA) }

Universe(b) ==
    CASE b = "trello" -> TrelloOps
      [] b = "linear" -> LinearOps
      [] OTHER -> AsanaOps

ListsUpTo(S, n) == UNION {[1..k -> S] : k \in 0..n}

Workspace(tasks, users, fields) == [tasks |-> tasks, users |-> users, fields |-> fields]

Workspaces(b) ==
    { Workspace(<<>>, {sX}, {"priority", "status"}),
      Workspace(<<Task(1, sA, sHigh)>>, {sX}, {"priority", "status"}),
      Workspace(<<Task(1, <<"a", "b">>, Null), Task(2, sA, sHigh)>>, {sX}, {"priority", "status"}) }
    \cup (IF b = "asana" THEN {Workspace(<<Task(1, sA, sHigh)>>, {sX}, {})} ELSE {})

----------------------------------------------------------------------------
(* The request: extraction, then the handler loop                          *)

InitWith(n) ==
    /\ backend \in {"trello", "linear", "asana"}
    /\ raw \in ListsUpTo(Universe(backend), n)
    /\ remote \in Workspaces(backend)
    /\ processed = {}
    /\ seenAtStart = {}
    /\ run = 1
    /\ ops = <<>>
    /\ pc = "extract"
    /\ pos = 0
    /\ results = <<>>
    /\ calls = <<>>
    /\ created = {}
    /\ nextId = Len(remote.tasks) + 1
    /\ transcript = <<>>
    /\ requests = <<>>
    /\ credentials = <<>>
    /\ tmpFiles = {}
    /\ arg = <<>>
    /\ ret = <<>>

Init == InitWith(MaxBatch)

InitExtract ==
    /\ InitWith(MaxRaw)
    \* the extractors read no more of the workspace than the names of its tasks
    /\ Len(remote.tasks) <= 1
    /\ remote.fields # {}

\* extract_tasks_<backend>; an empty list ends the request ("No tasks found")
ExtractFor(b) ==
    /\ pc = "extract"
    /\ backend = b
    /\ LET e == Extract(b, raw, processed, remote.tasks, transcript)
       IN /\ ops' = e.ops
          /\ processed' = e.proc
          /\ pc' = IF e.ops = <<>> THEN "done" ELSE "apply"
    /\ UNCHANGED <<requests, credentials, tmpFiles,
                   backend, raw, seenAtStart, run, pos, results, calls, remote,
                   created, nextId, transcript, arg, ret>>

ExtractTasksTrello == ExtractFor("trello")
ExtractTasksLinear == ExtractFor("linear")
ExtractTasksAsana == ExtractFor("asana")

\* the handler takes up the next operation of the list
Step(b, r) ==
    CASE b = "trello" ->
           TrelloStep(pos + 1, ops[pos + 1], r, remote.tasks, remote.users, created, nextId)
      [] b = "linear" ->
           LinearStep(pos + 1, ops[pos + 1], r, remote.tasks, remote.users, created, nextId)
      [] OTHER ->
           AsanaStep(pos + 1, ops[pos + 1], r, remote.tasks, remote.users, remote.fields,
                     created, nextId)

ApplyFor(b) ==
    /\ pc = "apply"
    /\ backend = b
    /\ pos < Len(ops)
    /\ \E r \in
         { Resp("ok", "ok", "ok"), Resp("ok", "fail", "ok"), Resp("ok", "raise", "ok"),
           Resp("ok", "ok", "fail"), Resp("ok", "ok", "raise"), Resp("raise", "ok", "ok") } :
         LET o == Step(b, r)
         IN /\ results' = results \o o.res
            /\ calls' = calls \o o.calls
            /\ remote' = [remote EXCEPT !.tasks = o.tasks]
            /\ created' = o.created
            /\ nextId' = IF Len(o.tasks) > Len(remote.tasks) THEN nextId + 1 ELSE nextId
            /\ pc' = IF o.raised THEN "aborted"
                     ELSE IF pos + 1 = Len(ops) THEN "done" ELSE "apply"
    /\ pos' = pos + 1
    /\ UNCHANGED <<requests, credentials, tmpFiles,
                   backend, raw, processed, seenAtStart, run, ops, transcript, arg, ret>>

HandleTaskOperationsTrello == ApplyFor("trello")
HandleTaskOperationsLinear == ApplyFor("linear")
HandleTaskOperationsAsana == ApplyFor("asana")

----------------------------------------------------------------------------
(* The operation summaries.  A summary is the list of its lines; a line    *)
(* keeps what its text is built from: the mark it opens with, the          *)
(* operation it names, the task it names and the error it ends with.  n is *)
(* the number the line prints (the index of an Asana line, the count of a  *)
(* Linear heading).  A result whose operation is None makes                *)
(* operation.capitalize() raise AttributeError.                            *)

\* format_operation_summary_trello: a heading, then one line per result in
\* the order of the list.  Only the create / update / delete / comment
\* branches print the task the result carries.
FormatOperationSummaryTrello(res) ==
    IF res = <<>> THEN << [mark |-> "none", operation |-> "", name |-> Absent,
                           error |-> Absent, n |-> 0] >>
    ELSE << [mark |-> "heading", operation |-> "", name |-> Absent,
             error |-> Absent, n |-> 0] >>
         \o [i \in 1..Len(res) |->
               [mark |-> IF res[i].success THEN "ok" ELSE "failed",
                operation |-> res[i].operation,
                name |-> IF res[i].operation \in {"create", "update", "delete", "comment"}
                         THEN (IF res[i].task = Absent THEN <<"Unknown task">>
                               ELSE res[i].task)
                         ELSE Absent,
                error |-> IF res[i].success THEN Absent ELSE res[i].error,
                n |-> 0]]

\* format_operation_summary_linear: the successful results under one heading,
\* then the failed results under another
FormatOperationSummaryLinear(res) ==
    LET successful_ops == SelectSeq(res, LAMBDA r : r.success)
        failed_ops == SelectSeq(res, LAMBDA r : ~r.success)
    IN IF res = <<>> THEN << [mark |-> "none", operation |-> "", name |-> Absent,
                              error |-> Absent, n |-> 0] >>
       ELSE (IF successful_ops = <<>> THEN <<>>
             ELSE << [mark |-> "heading", operation |-> "", name |-> Absent,
                      error |-> Absent, n |-> Len(successful_ops)] >>
                  \o [i \in 1..Len(successful_ops) |->
                        [mark |-> "ok", operation |-> successful_ops[i].operation,
                         name |-> successful_ops[i].task, error |-> Absent, n |-> 0]])
            \o
            (IF failed_ops = <<>> THEN <<>>
             ELSE << [mark |-> "heading", operation |-> "", name |-> Absent,
                      error |-> Absent, n |-> Len(failed_ops)] >>
                  \o [i \in 1..Len(failed_ops) |->
                        [mark |-> "failed", operation |-> failed_ops[i].operation,
                         name |-> failed_ops[i].task, error |-> failed_ops[i].error,
                         n |-> 0]])

\* format_operation_summary_asana: one numbered line per result
FormatOperationSummaryAsana(res) ==
    [i \in 1..Len(res) |->
       [mark |-> IF res[i].success THEN "ok" ELSE "failed",
        operation |-> res[i].operation,
        name |-> res[i].task,
        error |-> IF res[i].success THEN Absent ELSE res[i].error,
        n |-> i]]

\* send_audio from the handler's return on: the summary and the JSON response.
\* An exception of the handler or of the formatter ends in the except branch.
Respond ==
    /\ pc \in {"done", "aborted"}
    /\ pc' = "responded"
    /\ ret' = IF pc = "aborted" \/ \E i \in 1..Len(results) : results[i].operation = NoneKind
              THEN [success |-> FALSE, summary |-> <<>>]
              ELSE IF ops = <<>>
              THEN [success |-> TRUE, summary |-> <<>>]
              ELSE [success |-> TRUE,
                    summary |-> CASE backend = "trello" -> FormatOperationSummaryTrello(results)
                                  [] backend = "linear" -> FormatOperationSummaryLinear(results)
                                  [] OTHER -> FormatOperationSummaryAsana(results)]
    /\ UNCHANGED <<requests, credentials, tmpFiles,
                   backend, raw, processed, seenAtStart, run, ops, pos, results, calls,
                   remote, created, nextId, transcript, arg>>

Signature(b, op) ==
    CASE b = "trello" -> TrelloSignature(op)
      [] b = "linear" -> LinearSignature(op)
      [] OTHER -> <<>>

\* the session runs the same raw list through the extractor again and hands it
\* the signatures of the operations the first run returned
Rerun ==
    /\ pc \in {"apply", "done"}
    /\ run = 1
    /\ run' = 2
    /\ pc' = "extract"
    /\ LET known == IF backend = "asana" THEN processed
                    ELSE processed \cup {Signature(backend, raw[ops[k].idx]) :
                                            k \in {j \in 1..Len(ops) : ops[j].idx # 0}}
       IN /\ processed' = known
          /\ seenAtStart' = known
    /\ ops' = <<>>
    /\ UNCHANGED <<requests, credentials, tmpFiles,
                   backend, raw, pos, results, calls, remote, created, nextId,
                   transcript, arg, ret>>

Next ==
    \/ ExtractTasksTrello
    \/ ExtractTasksLinear
    \/ ExtractTasksAsana
    \/ HandleTaskOperationsTrello
    \/ HandleTaskOperationsLinear
    \/ HandleTaskOperationsAsana
    \/ Respond

Spec == Init /\ [][Next]_vars

SpecExtract ==
    InitExtract /\ [][ExtractTasksTrello \/ ExtractTasksLinear \/ ExtractTasksAsana \/ Rerun]_vars

----------------------------------------------------------------------------
(* The discriminator values each handler has a branch for                  *)

Recognised(b) ==
    CASE b = "trello" ->
          {"create", "comment", "update", "delete", "rename", "create_epic", "assign_epic",
           "assign_member", "remove_member", "create_checklist", "create_checklist_item",
           "update_checklist_item", "delete_checklist_item", "delete_checklist",
           "add_reflection_positive", "add_reflection_negative", "create_improvement_task",
           "update_checklist", "remove_epic"}
      [] b = "linear" ->
          {"create", "update", "comment", "assign", "remove_assignee", "remove_label",
           "delete", "create_sub_issue", "update_sub_issue", "delete_sub_issue",
           "remove_assignee_sub_issue", "remove_label_sub_issue", "create_label"}
      [] OTHER ->
          {"create", "update", "remove_status", "delete", "add-comment", "delete-comment",
           "remove_assignee", "create_subtask", "assign", "add_section", "remove_section",
           "add_tag", "remove_tag", "update_subtask", "delete_subtask", "create_checklist",
           "update_checklist", "delete_checklist", "add_checklist_item",
           "update_checklist_item", "delete_checklist_item", "remove_priority"}

\* the name by which an operation refers to an existing card / issue / task
Reference(b, op) ==
    CASE b = "trello" ->
           IF op.kind = "comment" /\ Truthy(op.target) THEN op.target
           ELSE IF op.kind = "comment" THEN GetVal(op.title)
           ELSE GetArg(op.title)
      [] b = "linear" -> GetArg(op.title)
      [] OTHER -> AsanaTarget(op)

\* the lookup of that name over a task list, with the transport answering
Resolve(b, name, tasks) ==
    CASE b = "trello" -> TrelloFind(name, tasks, Resp("ok", "ok", "ok"))
      [] b = "linear" -> LinearFind(name, tasks, Resp("ok", "ok", "ok"))
      [] OTHER -> AsanaFind(name, tasks, Resp("ok", "ok", "ok"))

----------------------------------------------------------------------------
(* Properties                                                              *)

\* C1 (delete-last): in the list handed to a handler no delete operation stands
\* before a non-delete operation, so that every delete is processed strictly
\* after every non-delete of the batch, for each of the three pipelines.
C1_DeleteLast ==
    pc # "extract" =>
        \A i \in 1..Len(ops), j \in 1..Len(ops) :
            (ops[i].kind = "delete" /\ ops[j].kind # "delete") => j < i

\* C2 (isolation, no fail-fast): a handler never leaves its loop before the end
\* of the batch; when it has stopped it has taken up every operation and it
\* returns a result list.
C2_NoFailFast ==
    /\ pc # "aborted"
    /\ (pc = "done" => pos = Len(ops))

\* C3 (reference not found): a handler step that takes up an update, delete,
\* comment or assign operation whose target does not resolve against the remote
\* task list appends a result with success = FALSE and issues no mutating call.
C3_NotFoundFails ==
    [][ (pc = "apply" /\ pos' = pos + 1) =>
          LET op == ops[pos + 1]
              name == Reference(backend, op)
              f == Resolve(backend, name, remote.tasks)
              byTable == backend = "trello" /\ op.kind = "comment"
                         /\ InCreated(created, name)
          IN (/\ op.kind \in {"update", "delete", "comment", "add-comment", "assign",
                              "rename"}
              /\ op.kind \in Recognised(backend)
              /\ (f.raised \/ f.id = 0)
              /\ ~byTable)
             => /\ Len(results') = Len(results) + 1
                /\ ~results'[Len(results')].success
                /\ calls' = calls ]_vars

C5_NoRepeatedCreate ==
    (run = 2 /\ pc # "extract" /\ backend \in {"trello", "linear"}) =>
        \A i \in 1..Len(ops) :
            ops[i].kind = "create"
               => Signature(backend, raw[ops[i].idx]) \notin seenAtStart

C7_RenameFirst ==
    (pc # "extract" /\ backend \in {"trello", "linear"}) =>
        \A i, j \in 1..Len(ops) :
            LET renames == IF backend = "trello" THEN ops[j].kind = "rename"
                           ELSE ops[j].kind = "update" /\ Truthy(ops[j].new_name)
                refers == /\ i # j
                          /\ ops[i].kind \in {"update", "delete", "comment", "assign",
                                              "assign_member", "rename"}
                          /\ Reference(backend, ops[i]) = ops[j].new_name
            IN (renames /\ refers) => j < i

C9_UnknownIntent ==
    pc # "extract" =>
        \A p \in 1..pos :
            ops[p].kind \notin Recognised(backend) =>
                /\ Cardinality({n \in 1..Len(results) : results[n].pos = p}) = 1
                /\ \A n \in 1..Len(results) :
                      results[n].pos = p
                         => /\ ~results[n].success
                            /\ results[n].error \in {"unknown", "Unknown intent"}
                /\ \A c \in 1..Len(calls) : calls[c].pos # p

\* C10 (secondary failures): the result recorded for a create whose remote
\* create call succeeded has success = TRUE, whatever became of the follow-up
\* calls (label, comment, checklist, priority, status).
C10_FollowupsKeepSuccess ==
    \A c \in 1..Len(calls) :
        (calls[c].verb = "create" /\ calls[c].ok) =>
            \A n \in 1..Len(results) :
                results[n].pos = calls[c].pos => results[n].success

\* C11 (same-batch create-then-reference): a handler step that takes up an
\* update, comment, assign, delete or rename whose reference is the name under
\* which an earlier create of the batch succeeded, while the created entity
\* still carries that name, issues its calls on the identifier that create
\* returned and does not end without a call (not found).
C11_CreatedIsResolved ==
    [][ (pc = "apply" /\ pos' = pos + 1 /\ backend \in {"trello", "linear"}) =>
          LET op == ops[pos + 1]
              name == Reference(backend, op)
              new == SubSeq(calls', Len(calls) + 1, Len(calls'))
              live == /\ InCreated(created, name)
                      /\ \E k \in 1..Len(remote.tasks) :
                            /\ remote.tasks[k].id = CreatedId(created, name)
                            /\ Lower(remote.tasks[k].name) = Lower(name)
          IN (/\ op.kind \in {"update", "comment", "assign", "assign_member", "delete",
                              "rename"}
              /\ IsStr(name)
              /\ live)
             => /\ new # <<>>
                /\ \A n \in 1..Len(new) : new[n].id = CreatedId(created, name) ]_vars

\* C12 (exact match wins): when a handler step takes up an operation whose
\* reference equals the name of some task of the list case-insensitively, the
\* resolution of the reference returns such a task, and every call the step
\* issues goes to such a task, wherever a task that merely contains the
\* reference (or is contained in it) stands in the list.
C12_ExactMatchWins ==
    [][ (pc = "apply" /\ pos' = pos + 1 /\ backend \in {"trello", "asana"}) =>
          LET op == ops[pos + 1]
              name == Reference(backend, op)
              new == SubSeq(calls', Len(calls) + 1, Len(calls'))
              exact == {remote.tasks[k].id :
                          k \in {j \in 1..Len(remote.tasks) :
                                   Lower(remote.tasks[j].name) = Lower(name)}}
          IN (/\ op.kind \in {"update", "delete", "comment", "add-comment", "assign",
                              "rename"}
              /\ IsStr(name)
              /\ exact # {})
             => /\ Resolve(backend, name, remote.tasks).id \in exact
                /\ \A n \in 1..Len(new) : new[n].id \in exact ]_vars

\* C13 (empty reference): a handler step that takes up an update, delete,
\* comment or assign whose target name is missing or empty resolves it to no
\* task, whatever the task list holds, and issues no mutating call.
C13_EmptyReference ==
    [][ (pc = "apply" /\ pos' = pos + 1 /\ backend \in {"trello", "asana"}) =>
          LET op == ops[pos + 1]
              name == Reference(backend, op)
          IN (/\ op.kind \in {"update", "delete", "comment", "add-comment", "assign",
                              "rename"}
              /\ ~Truthy(name))
             => /\ Resolve(backend, name, remote.tasks) = Found(0)
                /\ calls' = calls ]_vars

----------------------------------------------------------------------------
(* The Asana extractor on one operation: status promotion and              *)
(* canonical_status, over respelt status values                            *)

\* a listed variant respelt with one separator and one letter case
Respell(v, sep, upper) ==
    [k \in 1..Len(v) |->
       IF v[k] \in {" ", "-", "_"} THEN sep
       ELSE IF upper THEN UpperChar(v[k]) ELSE v[k]]

\* one parsed operation with every source of a promoted status: a status (none,
\* null, 'x', 'In-Progress' or a respelt variant), tags ('blocked'; 'x' and
\* 'Done'), a description ('is on track') and a title ('qa a')
InitStatus ==
    /\ backend = "asana"
    /\ raw \in
         {<<[Op("create", title) EXCEPT !.status = status, !.tags = tags,
                                 !.description = description] >> :
        title \in {sA, <<"q", "a", " ", "a">>},
        status \in {Absent, Null, sX, <<"I", "n", "-", "P", "r", "o", "g", "r", "e", "s", "s">>}
                   \cup {Respell(v, sep, upper) :
                            v \in UNION {StatusVariants(b) : b \in {OnTrack, AtRisk, OffTrack}},
                            sep \in {" ", "-", "_"}, upper \in BOOLEAN},
        tags \in {<<>>, <<<<"b", "l", "o", "c", "k", "e", "d">>>>, <<sX, <<"D", "o", "n", "e">>>>},
        description \in {Absent, sX, <<"i", "s", " ", "o", "n", " ", "t", "r", "a", "c", "k">>}}
    /\ remote = Workspace(<<>>, {}, {"priority", "status"})
    /\ processed = {}
    /\ seenAtStart = {}
    /\ run = 1
    /\ ops = <<>>
    /\ pc = "extract"
    /\ pos = 0
    /\ results = <<>>
    /\ calls = <<>>
    /\ created = {}
    /\ nextId = 1
    /\ transcript \in {<<>>, <<"a", " ", "a", "t", " ", "r", "i", "s", "k">>}
    /\ requests = <<>>
    /\ credentials = <<>>
    /\ tmpFiles = {}
    /\ arg = <<>>
    /\ ret = <<>>

SpecStatus == InitStatus /\ [][ExtractTasksAsana]_vars

\* C15 (status buckets): an operation's status that is, up to letter case and
\* with '-', '_' and space treated alike, one of the listed names of a bucket
\* (on track: on track, ontrack, green, to do, todo, not started; at risk: at
\* risk, yellow; off track: off track, red, blocked, stuck, delayed) leaves
\* the extractor as that bucket's canonical name, so every spelling of one
\* bucket gives the same value.
C15_StatusBuckets ==
    LET listed == [b \in {OnTrack, AtRisk, OffTrack} |->
                     IF b = OnTrack
                     THEN {<<"o", "n", " ", "t", "r", "a", "c", "k">>,
                           <<"o", "n", "t", "r", "a", "c", "k">>,
                           <<"g", "r", "e", "e", "n">>,
                           <<"t", "o", " ", "d", "o">>,
                           <<"t", "o", "d", "o">>,
                           <<"n", "o", "t", " ", "s", "t", "a", "r", "t", "e", "d">>}
                     ELSE IF b = AtRisk
                     THEN {<<"a", "t", " ", "r", "i", "s", "k">>,
                           <<"y", "e", "l", "l", "o", "w">>}
                     ELSE {<<"o", "f", "f", " ", "t", "r", "a", "c", "k">>,
                           <<"r", "e", "d">>,
                           <<"b", "l", "o", "c", "k", "e", "d">>,
                           <<"s", "t", "u", "c", "k">>,
                           <<"d", "e", "l", "a", "y", "e", "d">>}]
        alike(s, v) == /\ Len(s) = Len(v)
                       /\ \A k \in 1..Len(s) :
                             \/ s[k] \in {" ", "-", "_"} /\ v[k] \in {" ", "-", "_"}
                             \/ LowerChar(s[k]) = v[k]
    IN (/\ pc = "apply" /\ backend = "asana" /\ Len(raw) = 1
        /\ IsStr(raw[1].status)
        /\ raw[1].tags = <<>> /\ raw[1].description = Absent /\ raw[1].title = sA)
       => \A b \in {OnTrack, AtRisk, OffTrack} :
             (\E v \in listed[b] : alike(raw[1].status, v)) => ops[1].status = b

\* the status NOT_STARTED has gone through the extractor and come out as on track
C15_Witness ==
    /\ pc = "apply" /\ backend = "asana" /\ Len(raw) = 1
    /\ raw[1].tags = <<>> /\ raw[1].description = Absent /\ raw[1].title = sA
    /\ raw[1].status = <<"N", "O", "T", "_", "S", "T", "A", "R", "T", "E", "D">>
    /\ ops[1].status = OnTrack

\* C16 (status pass-through): an operation's status that is not a spelling of
\* any variant of any bucket leaves the extractor unchanged: same characters,
\* same case, same separators.
C16_StatusPassThrough ==
    LET alike(s, v) == /\ Len(s) = Len(v)
                       /\ \A k \in 1..Len(s) :
                             \/ s[k] \in {" ", "-", "_"} /\ v[k] \in {" ", "-", "_"}
                             \/ LowerChar(s[k]) = v[k]
    IN (/\ pc = "apply" /\ backend = "asana" /\ Len(raw) = 1
        /\ IsStr(raw[1].status) /\ Truthy(raw[1].status)
        /\ raw[1].tags = <<>> /\ raw[1].description = Absent /\ raw[1].title = sA
        /\ ~ \E b \in {OnTrack, AtRisk, OffTrack} :
               \E v \in StatusVariants(b) : alike(raw[1].status, v))
       => ops[1].status = raw[1].status

\* C17 (promotion order): the promoted status comes from the first source
\* holding a status keyword, in the order tags, description, title,
\* transcript; no later source changes it, and a promoted tag leaves the tag
\* list.
C17_PromotionOrder ==
    (pc = "apply" /\ backend = "asana" /\ Len(raw) = 1 /\ Len(ops) = 1) =>
       LET op == raw[1]
           t == FirstStatusTag(op.tags)
           d == IF Truthy(op.description) THEN FirstKeywordIn(op.description) ELSE 0
           h == IF Truthy(op.title) THEN FirstKeywordIn(op.title) ELSE 0
           w == IF Truthy(transcript) THEN FirstKeywordIn(transcript) ELSE 0
       IN IF t # 0
          THEN /\ ops[1].status = CanonicalStatus(op.tags[t])
               /\ ops[1].tags = RemoveFirst(op.tags, op.tags[t])
          ELSE IF d # 0 THEN ops[1].status = CanonicalStatus(StatusKeywords[d])
          ELSE IF h # 0 THEN ops[1].status = CanonicalStatus(StatusKeywords[h])
          ELSE IF w # 0 /\ op.status = Absent
               THEN ops[1].status = CanonicalStatus(StatusKeywords[w])
          ELSE TRUE

----------------------------------------------------------------------------
(* create_operation_signature applied to two create operations             *)

\* create operations over the fields the two signature functions read, and
\* one they do not
CreateOps ==
    {[Op("create", title) EXCEPT !.status = status, !.assignee = assignee,
                                 !.priority = priority, !.epic = epic,
                                 !.description = description] :
        title \in {sA, sUpA, sB},
        status \in {Absent, sX},
        assignee \in {Absent, sX},
        priority \in {Absent, sHigh, Null},
        epic \in {Absent, sX},
        description \in {Absent, sX}}

InitSignature ==
    /\ backend \in {"trello", "linear"}
    /\ arg \in CreateOps \X CreateOps
    /\ ret = <<>>
    /\ pc = "call"
    /\ raw = <<>>
    /\ remote = Workspace(<<>>, {}, {})
    /\ processed = {}
    /\ seenAtStart = {}
    /\ run = 1
    /\ ops = <<>>
    /\ pos = 0
    /\ results = <<>>
    /\ calls = <<>>
    /\ created = {}
    /\ nextId = 1
    /\ transcript = <<>>
    /\ requests = <<>>
    /\ credentials = <<>>
    /\ tmpFiles = {}

\* the extractor's dedup loop computes the signature of each of the two
CreateOperationSignature ==
    /\ pc = "call"
    /\ ret' = <<Signature(backend, arg[1]), Signature(backend, arg[2])>>
    /\ pc' = "return"
    /\ UNCHANGED <<requests, credentials, tmpFiles,
                   backend, raw, processed, seenAtStart, run, ops, pos, results,
                   calls, remote, created, nextId, transcript, arg>>

SpecSignature == InitSignature /\ [][CreateOperationSignature]_vars

\* C18 (create signature): the signatures of two create operations are equal
\* exactly when the two agree on title, status, assignee and priority up to
\* letter case, whatever their other fields.
C18_CreateSignature ==
    LET same(u, v) == \/ u = v
                      \/ IsStr(u) /\ IsStr(v) /\ Lower(u) = Lower(v)
    IN pc = "return" =>
          ((ret[1] = ret[2]) <=>
              /\ same(arg[1].title, arg[2].title)
              /\ same(arg[1].status, arg[2].status)
              /\ same(arg[1].assignee, arg[2].assignee)
              /\ same(arg[1].priority, arg[2].priority))

----------------------------------------------------------------------------
(* The Trello and Linear extractors on lists that may hold an element      *)
(* that is not a dict                                                      *)

InitMalformed ==
    /\ backend \in {"trello", "linear"}
    \* an element that is not a JSON object (a string, a number) has kind <scalar>
    /\ raw \in ListsUpTo(Universe(backend) \cup {Op("<scalar>", Absent)}, MaxBatch)
    /\ remote \in Workspaces(backend)
    /\ processed = {}
    /\ seenAtStart = {}
    /\ run = 1
    /\ ops = <<>>
    /\ pc = "extract"
    /\ pos = 0
    /\ results = <<>>
    /\ calls = <<>>
    /\ created = {}
    /\ nextId = Len(remote.tasks) + 1
    /\ transcript = <<>>
    /\ requests = <<>>
    /\ credentials = <<>>
    /\ tmpFiles = {}
    /\ arg = <<>>
    /\ ret = <<>>

SpecMalformed == InitMalformed /\ [][ExtractTasksTrello \/ ExtractTasksLinear]_vars

\* C19 (malformed operations are kept): an element of the raw list that is not
\* a mapping, for which the signature function returns None, is still in the
\* extractor's output, and the other operations come out as they would
\* without it.
C19_MalformedKept ==
    (pc \in {"apply", "done"} /\ run = 1 /\ pos = 0 /\ backend \in {"trello", "linear"}) =>
       LET clean == SelectSeq(raw, IsDict)
           plain(list) == [j \in 1..Len(list) |-> [list[j] EXCEPT !.idx = 0]]
       IN /\ \A k \in 1..Len(raw) :
                ~IsDict(raw[k]) => \E j \in 1..Len(ops) : ops[j].idx = k
          /\ plain(SelectSeq(ops, IsDict))
                = plain(Extract(backend, clean, {}, remote.tasks, transcript).ops)

----------------------------------------------------------------------------
(* find_checklist_by_name and find_checklist_item_by_name applied to a     *)
(* reference and the card's checklists (the checklist's items)             *)

MaxCandidates == 3

InitChecklist ==
    /\ backend = "trello"
    /\ arg \in [ref :
             { <<"f", "i", "r", "s", "t", " ", "c", "h", "e", "c", "k", "l", "i", "s", "t">>,
               <<"S", "e", "c", "o", "n", "d", " ", "C", "h", "e", "c", "k", "l", "i", "s", "t">>,
               <<"t", "e", "n", "t", "h", " ", "c", "h", "e", "c", "k", "l", "i", "s", "t">>,
               <<"c", "h", "e", "c", "k", "l", "i", "s", "t", " ", "2">>,
               <<"c", "h", "e", "c", "k", "l", "i", "s", "t", " ", "0">>,
               <<"f", "i", "r", "s", "t", " ", "i", "t", "e", "m">>,
               <<"2", "n", "d", " ", "i", "t", "e", "m">>,
               <<"t", "e", "n", "t", "h", " ", "i", "t", "e", "m">>,
               <<"i", "t", "e", "m", " ", "3">>,
               <<"i", "t", "e", "m", " ", "0">>,
               <<"2">>,
               <<"t", "e", "n", "t", "h">>,
               <<"F", "i", "r", "s", "t">>,
               <<"a">> },
                names : ListsUpTo({sA, sB, <<"t", "e", "n", "t", "h", " ", "i", "t", "e", "m">>}, MaxCandidates),
                noun : {"checklist", "item", "update"}, up : BOOLEAN]
    /\ ret = <<>>
    /\ pc = "call"
    /\ raw = <<>>
    /\ remote = Workspace(<<>>, {}, {})
    /\ processed = {}
    /\ seenAtStart = {}
    /\ run = 1
    /\ ops = <<>>
    /\ pos = 0
    /\ results = <<>>
    /\ calls = <<>>
    /\ created = {}
    /\ nextId = 1
    /\ transcript = <<>>
    /\ requests = <<>>
    /\ credentials = <<>>
    /\ tmpFiles = {}

FindChecklist ==
    /\ pc = "call"
    /\ arg.noun = "checklist"
    /\ ret' = <<FindChecklistByName(arg.names, arg.ref, arg.up)>>
    /\ pc' = "return"
    /\ UNCHANGED <<requests, credentials, tmpFiles,
                   backend, raw, processed, seenAtStart, run, ops, pos, results,
                   calls, remote, created, nextId, transcript, arg>>

FindChecklistItem ==
    /\ pc = "call"
    /\ arg.noun = "item"
    /\ ret' = <<FindChecklistItemByName(arg.names, arg.ref, arg.up)>>
    /\ pc' = "return"
    /\ UNCHANGED <<requests, credentials, tmpFiles,
                   backend, raw, processed, seenAtStart, run, ops, pos, results,
                   calls, remote, created, nextId, transcript, arg>>

\* the update_checklist_item branch once the card and the checklist are resolved
UpdateItem ==
    /\ pc = "call"
    /\ arg.noun = "update"
    /\ ret' = <<UpdateChecklistItem(arg.names, arg.ref, arg.up)>>
    /\ pc' = "return"
    /\ UNCHANGED <<requests, credentials, tmpFiles,
                   backend, raw, processed, seenAtStart, run, ops, pos, results,
                   calls, remote, created, nextId, transcript, arg>>

SpecChecklist == InitChecklist /\ [][FindChecklist \/ FindChecklistItem \/ UpdateItem]_vars

\* C14 (positional references never wrap or clamp): a checklist or item
\* reference that matches the ordinal grammar with 0-based index k resolves to
\* the candidate at index k when k is below the number of candidates, and to
\* no match when it is not; no other candidate is substituted.
C14_PositionalNoSubstitute ==
    (pc = "return" /\ arg.up /\ arg.noun \in {"checklist", "item"}) =>
       LET noun == IF arg.noun = "checklist" THEN sChecklist ELSE sItem
           word == OrdinalMatch(arg.ref, noun)
           digits == NumberMatch(arg.ref, noun)
           k == IF word # Null THEN PositionOf(word)
                ELSE IF digits # Null THEN ToInt(digits) - 1
                ELSE -1
       IN k >= 0 => ret[1] = (IF k < Len(arg.names) THEN k + 1 ELSE 0)

\* C20 (one result per operation): when the handler has gone through a list of
\* n operations, the result list has exactly n entries and the i-th entry is
\* the one written for the i-th operation, with that operation's type.
C20_OneResultPerOperation ==
    pc = "done" =>
       /\ Len(results) = Len(ops)
       /\ \A i \in 1..Len(results) :
             /\ i <= Len(ops)
             /\ results[i].pos = i
             /\ results[i].operation
                   = (IF backend = "asana" THEN AsanaIntent(ops[i]) ELSE OpType(ops[i]))

\* C21 (summary order): in the response to a request whose operations were
\* applied, the summary's result lines are as many as the results, and the
\* i-th of them is the line of the i-th result: marked failed exactly when that
\* result failed, naming its operation, and ending with its error when it failed.
C21_SummaryOrder ==
    (pc = "responded" /\ ret.success /\ ops # <<>>) =>
       LET lines == SelectSeq(ret.summary, LAMBDA l : l.mark \in {"ok", "failed"})
       IN /\ Len(lines) = Len(results)
          /\ \A i \in 1..Len(lines) :
                /\ i <= Len(results)
                /\ lines[i].mark = (IF results[i].success THEN "ok" ELSE "failed")
                /\ lines[i].operation = results[i].operation
                /\ ~results[i].success => lines[i].error = results[i].error

\* C22 (batch-level success): when extraction returned at least one operation
\* and the handler returned its results, the response carries success = true,
\* whatever the success flags of the results are.
C22_BatchSuccess ==
    [][(pc = "done" /\ ops # <<>> /\ pc' = "responded") => ret'.success]_vars

\* C23 (update frame): every remote call issued for an update operation writes
\* only fields whose keys are in the operation's dict (the label call writes
\* the epic, the comment call the comment); a field whose key is absent is
\* never written, with a value or as null.
C23_UpdateFrame ==
    \A j \in 1..Len(calls) :
       LET c == calls[j]
           op == ops[c.pos]
       IN (IF backend = "asana" THEN AsanaIntent(op) ELSE OpType(op)) = "update"
          => \A k \in c.fields : op[IF k = "label" THEN "epic" ELSE k] # Absent

\* an update that named some fields and left others out has written to a task
C23_Witness ==
    /\ pc = "responded"
    /\ \E j \in 1..Len(calls) :
          /\ calls[j].verb = "update"
          /\ calls[j].ok
          /\ calls[j].fields # {}
          /\ ops[calls[j].pos].priority = Absent
          /\ ops[calls[j].pos].status = Absent

\* C24 (explicit null assignee clears): an update whose dict holds assignee =
\* None, and whose target resolves, succeeds and writes the assignee as null;
\* an update without the assignee key issues no call that writes the assignee.
C24_NullAssigneeClears ==
    pc = "responded" =>
       \A i \in 1..Len(ops) :
          (/\ (IF backend = "asana" THEN AsanaIntent(ops[i]) ELSE OpType(ops[i])) = "update"
           /\ i <= Len(results)
           /\ results[i].pos = i)
          => /\ (ops[i].assignee = Absent
                   => \A j \in 1..Len(calls) :
                         calls[j].pos = i => "assignee" \notin calls[j].fields)
             /\ (ops[i].assignee = Null /\ results[i].error # "Task not found"
                 /\ \E j \in 1..Len(calls) : calls[j].pos = i /\ calls[j].ok)
                   => /\ results[i].success
                      /\ \E j \in 1..Len(calls) :
                            calls[j].pos = i /\ "assignee" \in calls[j].nulls

----------------------------------------------------------------------------
(* delete_comment_from_task applied to the stories of a task               *)

MaxStories == 3

\* delete_comment_from_task from story k on: the stories a DELETE was sent for
\* and the value returned.  answers[k] is whether the DELETE of story k is
\* answered with 200.
RECURSIVE DeleteCommentFromTask(_, _, _, _)
DeleteCommentFromTask(stories, comment, answers, k) ==
    IF k > Len(stories) THEN [targeted |-> <<>>, ok |-> FALSE]
    ELSE IF stories[k].type = "comment" /\ Contains(Lower(stories[k].text), Lower(comment))
    THEN IF answers[k] THEN [targeted |-> <<k>>, ok |-> TRUE]
         ELSE [DeleteCommentFromTask(stories, comment, answers, k + 1)
                 EXCEPT !.targeted = <<k>> \o @]
    ELSE DeleteCommentFromTask(stories, comment, answers, k + 1)

InitComments ==
    /\ backend = "asana"
    /\ \E n \in 0..MaxStories :
          arg \in [stories : [1..n -> [type : {"comment", "system"},
                                       text : {sX, <<"a", "X">>, sB}]],
                   comment : {sX},
                   fetched : BOOLEAN,
                   answers : [1..n -> BOOLEAN]]
    /\ ret = <<>>
    /\ pc = "call"
    /\ raw = <<>>
    /\ remote = Workspace(<<>>, {}, {})
    /\ processed = {}
    /\ seenAtStart = {}
    /\ run = 1
    /\ ops = <<>>
    /\ pos = 0
    /\ results = <<>>
    /\ calls = <<>>
    /\ created = {}
    /\ nextId = 1
    /\ transcript = <<>>
    /\ requests = <<>>
    /\ credentials = <<>>
    /\ tmpFiles = {}

\* the delete-comment branch once the task is resolved and the comment is given
DeleteComment ==
    /\ pc = "call"
    /\ ret' = IF arg.fetched
              THEN DeleteCommentFromTask(arg.stories, arg.comment, arg.answers, 1)
              ELSE [targeted |-> <<>>, ok |-> FALSE]
    /\ pc' = "return"
    /\ UNCHANGED <<requests, credentials, tmpFiles,
                   backend, raw, processed, seenAtStart, run, ops, pos, results,
                   calls, remote, created, nextId, transcript, arg>>

SpecComments == InitComments /\ [][DeleteComment]_vars

\* C25 (delete-comment deletes the first match only): one delete-comment sends
\* a DELETE for at most one story, and that story is the first comment, in
\* listing order, whose text contains the given text in any case; this holds
\* whether or not that DELETE is answered with success.
C25_FirstMatchOnly ==
    pc = "return" =>
       /\ Len(ret.targeted) <= 1
       /\ \A j \in 1..Len(ret.targeted) :
             /\ arg.stories[ret.targeted[j]].type = "comment"
             /\ Contains(Lower(arg.stories[ret.targeted[j]].text), Lower(arg.comment))
             /\ \A k \in 1..(ret.targeted[j] - 1) :
                   ~(/\ arg.stories[k].type = "comment"
                     /\ Contains(Lower(arg.stories[k].text), Lower(arg.comment)))

\* C26 (checklist-item auto-create on update): update_checklist_item with a
\* plain name that equals no item of the checklist creates an item of that name
\* and sends the update for the new item; with a positional reference (an
\* ordinal word, "item N" or a bare number) that is out of range it creates
\* nothing and fails.
C26_AutoCreateOnUpdate ==
    (pc = "return" /\ arg.noun = "update" /\ arg.up) =>
       LET digits == NumberMatch(arg.ref, sItem)
           position == IF PositionOf(arg.ref) # -1 THEN PositionOf(arg.ref)
                       ELSE IF digits # Null THEN ToInt(digits) - 1
                       ELSE IF IsDigits(arg.ref) THEN ToInt(arg.ref) - 1
                       ELSE -1
           positional == PositionOf(arg.ref) # -1 \/ digits # Null \/ IsDigits(arg.ref)
           named == \E k \in 1..Len(arg.names) : Lower(arg.names[k]) = Lower(arg.ref)
       IN /\ (~positional /\ ~named)
               => /\ ret[1].created = <<arg.ref>>
                  /\ ret[1].item = Len(arg.names) + 1
                  /\ ret[1].ok
          /\ (positional /\ ~named /\ (position < 0 \/ position >= Len(arg.names)))
               => /\ ret[1].created = <<>>
                  /\ ~ret[1].ok

\* C27 (existing-entity create dedup): the list an extractor returns holds no
\* create operation whose title equals, in any case, the name of an entity of
\* the fetched workspace state, whether or not its signature was seen before.
C27_ExistingNotCreated ==
    (pc \in {"apply", "done"}) =>
       \A i \in 1..Len(ops) :
          (IF backend = "asana" THEN AsanaIntent(ops[i]) ELSE OpType(ops[i])) = "create"
             => \A k \in 1..Len(remote.tasks) :
                   Lower(GetArg(ops[i].title)) # Lower(remote.tasks[k].name)

\* C28 (single snapshot per batch): the update and delete calls of a batch
\* address entities of the workspace as it was when the batch started; none of
\* them addresses an entity that an earlier operation of the same batch
\* created, which only a lookup made after that operation can have found.
C28_SingleSnapshot ==
    \A j \in 1..Len(calls) :
       calls[j].verb \in {"update", "delete"}
          => \A i \in 1..(j - 1) :
                ~(/\ calls[i].verb = "create"
                  /\ calls[i].ok
                  /\ calls[i].pos < calls[j].pos
                  /\ calls[i].id = calls[j].id)

----------------------------------------------------------------------------
(* main.py: requests served together by one event loop.  A request runs    *)
(* without interruption up to its await of the transcription, where other  *)
(* requests may run, and then from the transcript to its response.  A      *)
(* request supplies its own key (its number) or none (0); the environment  *)
(* holds no fallback credentials for the platforms.                        *)

MaxRequests == 2

InitServer ==
    /\ requests \in
         {f \in [1..MaxRequests ->
                   [endpoint : {"send-audio", "send-audio-linear"},
                    platform : {"trello", "linear", "asana", "missing"},
                    key : 0..MaxRequests,
                    pc : {"new"}, response : {"none"}, used : {{}}]] :
            \A r \in 1..MaxRequests :
               /\ f[r].key \in {0, r}
               /\ f[r].endpoint = "send-audio-linear" => f[r].platform = "linear"}
    /\ credentials \in [trello : {0}, linear : {0}, asana : {0}, openai : BOOLEAN]
    /\ tmpFiles = {}
    /\ backend = "trello"
    /\ raw = <<>>
    /\ remote = Workspace(<<>>, {}, {})
    /\ processed = {}
    /\ seenAtStart = {}
    /\ run = 1
    /\ ops = <<>>
    /\ pc = "serve"
    /\ pos = 0
    /\ results = <<>>
    /\ calls = <<>>
    /\ created = {}
    /\ nextId = 1
    /\ transcript = <<>>
    /\ arg = <<>>
    /\ ret = <<>>

\* send_audio: the block up to the await, and the block from the transcript on.
\* The finally clause unlinks the temporary file on every way out.
SendAudio(r) ==
    /\ requests[r].endpoint = "send-audio"
    /\ \/ /\ requests[r].pc = "new"
          /\ IF requests[r].platform = "missing"
             THEN \* platform.lower() raises on None
                  /\ requests' = [requests EXCEPT ![r].pc = "finished",
                                                  ![r].response = "failed"]
                  /\ UNCHANGED <<credentials, tmpFiles>>
             ELSE /\ credentials' = [credentials EXCEPT
                                       ![requests[r].platform] = requests[r].key]
                  /\ IF requests[r].key = 0 \/ ~credentials.openai
                     THEN /\ requests' = [requests EXCEPT ![r].pc = "finished",
                                                          ![r].response = "failed"]
                          /\ UNCHANGED tmpFiles
                     ELSE /\ requests' = [requests EXCEPT ![r].pc = "transcribing"]
                          /\ tmpFiles' = tmpFiles \cup {r}
       \/ /\ requests[r].pc = "transcribing"
          /\ \E heard \in BOOLEAN, extraction \in {"operations", "none", "raise"},
                returns \in BOOLEAN :
                requests' =
                  [requests EXCEPT
                     ![r].pc = "finished",
                     ![r].used = IF heard /\ extraction = "operations"
                                 THEN {credentials[requests[r].platform]} ELSE {},
                     ![r].response = IF /\ heard
                                        /\ \/ extraction = "none"
                                           \/ extraction = "operations" /\ returns
                                     THEN "ok" ELSE "failed"]
          /\ tmpFiles' = tmpFiles \ {r}
          /\ UNCHANGED credentials
    /\ UNCHANGED <<backend, raw, processed, seenAtStart, run, ops, pc, pos, results,
                   calls, remote, created, nextId, transcript, arg, ret>>

\* send_audio_linear: the same two blocks; the temporary file is unlinked
\* before the final response and in the except branch only
SendAudioLinear(r) ==
    /\ requests[r].endpoint = "send-audio-linear"
    /\ \/ /\ requests[r].pc = "new"
          /\ credentials' = [credentials EXCEPT !.linear = requests[r].key]
          /\ tmpFiles' = tmpFiles \cup {r}
          /\ requests' = IF requests[r].key = 0 \/ ~credentials.openai
                         THEN [requests EXCEPT ![r].pc = "finished",
                                               ![r].response = "failed"]
                         ELSE [requests EXCEPT ![r].pc = "transcribing"]
       \/ /\ requests[r].pc = "transcribing"
          /\ \E heard \in BOOLEAN, extraction \in {"operations", "none"},
                returns \in BOOLEAN :
                /\ requests' =
                     [requests EXCEPT
                        ![r].pc = "finished",
                        ![r].used = IF heard /\ extraction = "operations"
                                    THEN {credentials.linear} ELSE {},
                        ![r].response = IF /\ heard
                                           /\ \/ extraction = "none"
                                              \/ extraction = "operations" /\ returns
                                        THEN "ok" ELSE "failed"]
                /\ tmpFiles' = IF heard /\ extraction = "operations"
                               THEN tmpFiles \ {r} ELSE tmpFiles
          /\ UNCHANGED credentials
    /\ UNCHANGED <<backend, raw, processed, seenAtStart, run, ops, pc, pos, results,
                   calls, remote, created, nextId, transcript, arg, ret>>

SpecServer ==
    InitServer /\ [][\E r \in 1..MaxRequests : SendAudio(r) \/ SendAudioLinear(r)]_vars

\* C29 (credential isolation between concurrent requests): the remote calls
\* issued while a request's operations are applied use the credentials that
\* this request supplied, whatever other /send-audio request with credentials
\* of its own ran while it was waiting for its transcription.
C29_CredentialIsolation ==
    (\A q \in 1..MaxRequests : requests[q].endpoint = "send-audio" /\ requests[q].key # 0)
       => \A r \in 1..MaxRequests : requests[r].used \subseteq {requests[r].key}

\* C30 (temporary file cleanup): when a request has been answered, on whatever
\* path, its temporary audio file is no longer on disk.
C30_TempFileDeleted ==
    \A r \in 1..MaxRequests : requests[r].pc = "finished" => r \notin tmpFiles

====
